---- MODULE Spec2Model ----
\* Crisis response orchestration: the /crisis_command (submit) and /process
\* (resolve) handlers of backend/main.py, CrisisEngine.process_crises, the
\* resolver, the risk engine, the dispatcher and the audit log.
\*
\* Conventions
\*   - A Python dict is a function with a domain of strings (a record); the
\*     empty dict {} is the empty function <<>>, and d.get(k, default) is
\*     Get(d, k, default).
\*   - A Python list is a sequence.
\*   - Risk scores are floats with one decimal; they are kept in tenths
\*     (6.0 is 60), so that all arithmetic is on integers.
\*   - uuid4() never repeats: the crisis_id of a submission is the index of the
\*     handler call that drew it.
\*   - Every handler call is a process with a program counter. The handlers
\*     are `async def` coroutines of one event loop (uvicorn.run, main.py:680):
\*     a handler keeps the loop until it awaits or returns. crisis_command
\*     awaits nothing; process awaits request.form() once, before it takes
\*     pending_decisions_lock. `running` is the call that holds the loop.
EXTENDS Integers, Sequences, FiniteSets, TLC

VARIABLES
    audit_log,              \* services/audit.py: audit_log
    pending_decisions,      \* main.py: pending_decisions (crisis_id -> entry)
    pending_decisions_lock, \* main.py: pending_decisions_lock (holder or NoCall)
    reports,                \* db.py: rows of crisis_reports (crisis_id -> row)
    approval_calls,         \* crisis ids an approval call was requested for
    call,                   \* the handler calls: program counter and locals
    running,                \* the call the event loop is executing, or NoCall
    now,                    \* the wall clock, in seconds
    removed,                \* history: crisis_id -> number of `del`s of its entry
    fn                      \* a function applied on its own: name, arguments,
                            \* locals and result (used by SpecFunctions only)

vars == <<audit_log, pending_decisions, pending_decisions_lock, reports,
          approval_calls, call, running, now, removed, fn>>

\* the state of the handlers
hvars == <<audit_log, pending_decisions, pending_decisions_lock, reports,
           approval_calls, call, running, now, removed>>

-----------------------------------------------------------------------------
\* Bounds of the model

\* Number of handler calls (submits and resolves together) in a behaviour.
MaxCalls == 3
\* The clock advances at most this many times.
MaxTicks == 2
\* Seconds per clock tick.
TickSeconds == 600

Calls == 1..MaxCalls
NoCall == 0
CrisisIds == Calls
NoId == 0

-----------------------------------------------------------------------------
\* Python helpers

Get(d, k, default) == IF k \in DOMAIN d THEN d[k] ELSE default

EmptyDict == <<>>

\* Variant of Falsy: no dict counts as empty.
NeverFalsy(d) == FALSE

\* not d, for a dict d
Falsy(d) == DOMAIN d = {}

\* str.lower() on the strings that occur as severity or crisis type
Lower(s) ==
    CASE s = "High" -> "high"
      [] s = "Low" -> "low"
      [] s = "Medium" -> "medium"
      [] s = "Critical" -> "critical"
      [] s = "Fire" -> "fire"
      [] s = "Flood" -> "flood"
      [] s = "Gas Leak" -> "gas leak"
      [] s = "Accident" -> "accident"
      [] s = "Earthquake" -> "earthquake"
      [] s = "Unknown" -> "unknown"
      [] s = "HIGH" -> "high"
      [] s = "Moderate" -> "moderate"
      [] s = "Industrial Accident" -> "industrial accident"
      [] s = "Fuel depot" -> "fuel depot"
      [] s = "Toxic CHEMICAL smoke" -> "toxic chemical smoke"
      [] OTHER -> s

\* the danger keywords that are substrings of the lower-cased risk factor s
KeywordsIn(s) ==
    CASE s = "fuel storage nearby" -> {"fuel"}
      [] s = "toxic chemical smoke" -> {"toxic", "chemical"}
      [] s = "fuel depot" -> {"fuel"}
      [] s = "refuelling station" -> {"fuel"}
      [] s = "fuel leak near fuel tanks" -> {"fuel"}
      [] s = "nuclear fuel, radiation, casualties" ->
            {"nuclear", "fuel", "radiation", "casualties"}
      [] OTHER -> {}

-----------------------------------------------------------------------------
\* services/risk_engine.py

danger_keywords ==
    {"fuel", "chemical", "refinery", "radiation", "explosion", "casualties",
     "toxic", "nuclear"}

\* Variant of SeverityScore: a base of 1, 2, 3, 4 for low, medium, high,
\* critical, and the lowest base for any other severity.
SeverityScoreByRank(severity) ==
    IF severity \in {"low"} THEN 10
    ELSE IF severity \in {"medium", "moderate"} THEN 20
    ELSE IF severity \in {"high", "major", "severe"} THEN 30
    ELSE IF severity \in {"critical"} THEN 40
    ELSE 10

SeverityScore(severity) ==
    IF severity \in {"low"} THEN 10
    ELSE IF severity \in {"medium", "moderate"} THEN 30
    ELSE IF severity \in {"high", "major", "severe", "critical"} THEN 50
    ELSE 20

TypeWeight(crisis_type) ==
    IF crisis_type \in {"fire", "industrial accident", "gas leak"} THEN 10
    ELSE IF crisis_type \in {"earthquake"} THEN 20
    ELSE 0

\* the number of places of the lower-cased risk factor s where a danger
\* keyword starts
KeywordOccurrences(s) ==
    CASE s = "fuel storage nearby" -> 1
      [] s = "toxic chemical smoke" -> 2
      [] s = "fuel depot" -> 1
      [] s = "refuelling station" -> 1
      [] s = "fuel leak near fuel tanks" -> 2
      [] s = "nuclear fuel, radiation, casualties" -> 4
      [] OTHER -> 0

\* Variant of KeywordScore: every occurrence of a keyword counts.
KeywordScorePerOccurrence(risk_factor) ==
    15 * KeywordOccurrences(risk_factor)

KeywordScore(risk_factor) ==
    15 * Cardinality(danger_keywords \cap KeywordsIn(risk_factor))

calculate_risk(crisis) ==
    LET severity == Lower(Get(crisis, "severity", ""))
        crisis_type == Lower(Get(crisis, "crisis_type", ""))
        risk_factor == Lower(Get(crisis, "risk_factor", ""))
    IN  SeverityScore(severity) + TypeWeight(crisis_type) + KeywordScore(risk_factor)

-----------------------------------------------------------------------------
\* services/resolver.py

\* sorted(crisis_list, key=risk_score, reverse=True): stable, so crises of
\* equal score keep their input order.
\* Variant of InsertDesc: a crisis goes in front of those of equal score.
RECURSIVE InsertDescUnstable(_, _)
InsertDescUnstable(sorted, x) ==
    IF sorted = <<>> THEN <<x>>
    ELSE IF Get(Head(sorted), "risk_score", 0) > Get(x, "risk_score", 0)
         THEN <<Head(sorted)>> \o InsertDescUnstable(Tail(sorted), x)
         ELSE <<x>> \o sorted

RECURSIVE InsertDesc(_, _)
InsertDesc(sorted, x) ==
    IF sorted = <<>> THEN <<x>>
    ELSE IF Get(Head(sorted), "risk_score", 0) >= Get(x, "risk_score", 0)
         THEN <<Head(sorted)>> \o InsertDesc(Tail(sorted), x)
         ELSE <<x>> \o sorted

\* Variant of SortedDesc: the list is taken in input order.
Unsorted(crisis_list) == crisis_list

RECURSIVE SortedDesc(_)
SortedDesc(crisis_list) ==
    IF crisis_list = <<>> THEN <<>>
    ELSE InsertDesc(SortedDesc(SubSeq(crisis_list, 1, Len(crisis_list) - 1)),
                    crisis_list[Len(crisis_list)])

\* Variant of HasResource: the count is not tested.
HasEntry(remaining_resources, crisis_type) ==
    crisis_type \in DOMAIN remaining_resources

HasResource(remaining_resources, crisis_type) ==
    /\ crisis_type \in DOMAIN remaining_resources
    /\ remaining_resources[crisis_type] > 0

Allocated(crisis) ==
    [status |-> "allocated", action |-> <<"Allocated resource for", Get(crisis, "crisis_type", "None")>>]
        @@ crisis

\* Variant of Delayed: the reason does not name the type.
DelayedUnnamed(crisis) ==
    [status |-> "delayed", reason |-> <<"No resources available">>] @@ crisis

Delayed(crisis) ==
    [status |-> "delayed", reason |-> <<"No resources available for", Get(crisis, "crisis_type", "None")>>]
        @@ crisis

RECURSIVE Allocate(_, _)
Allocate(sorted_crises, acc) ==
    IF sorted_crises = <<>> THEN acc
    ELSE LET crisis == Head(sorted_crises)
             crisis_type == Get(crisis, "crisis_type", "None")
         IN  IF HasResource(acc.remaining_resources, crisis_type)
             THEN Allocate(Tail(sorted_crises),
                    [decisions |-> Append(acc.decisions, Allocated(crisis)),
                     tradeoffs |-> acc.tradeoffs,
                     remaining_resources |->
                        [acc.remaining_resources EXCEPT ![crisis_type] = @ - 1]])
             ELSE Allocate(Tail(sorted_crises),
                    [decisions |-> acc.decisions,
                     tradeoffs |-> Append(acc.tradeoffs, Delayed(crisis)),
                     remaining_resources |-> acc.remaining_resources])

resolve_conflicts(crisis_list, resources) ==
    Allocate(SortedDesc(crisis_list),
             [decisions |-> <<>>, tradeoffs |-> <<>>, remaining_resources |-> resources])

-----------------------------------------------------------------------------
\* crisis_engine.py

resource_pool ==
    [t \in {"Fire", "Flood", "Gas Leak", "Accident", "Earthquake"} |->
        CASE t = "Fire" -> 2
          [] t = "Flood" -> 2
          [] t = "Gas Leak" -> 1
          [] t = "Accident" -> 2
          [] t = "Earthquake" -> 1]

\* What self.model.extract_crisis(text) hands back. CrisisModel.extract_crisis
\* (ai_model.py) returns a dict: the cleaned record, or its _fallback record when
\* the request failed. _parse_crisis_response is written for a model that
\* answers with text, so a str answer is modelled too: has_object says the text
\* holds a '{' with a '}' after it, valid that the text between them is JSON,
\* value the JSON object.
DictOutput(record) ==
    [kind |-> "dict", has_object |-> FALSE, valid |-> FALSE, value |-> record]

StrOutput(has_object, valid, object) ==
    [kind |-> "str", has_object |-> has_object, valid |-> valid, value |-> object]

ModelFallback ==
    [crisis_type |-> "Unknown", location |-> "Unknown", severity |-> "Medium",
     risk_factor |-> "Groq request failed"]

FireRecord ==
    [crisis_type |-> "Fire", location |-> "Sector 12", severity |-> "High",
     risk_factor |-> "fuel storage nearby"]

FloodRecord ==
    [crisis_type |-> "Flood", location |-> "Riverside", severity |-> "Low"]

DictFire == DictOutput(FireRecord)
TextFire == StrOutput(TRUE, TRUE, FireRecord)
TextFlood == StrOutput(TRUE, TRUE, FloodRecord)
TextBroken == StrOutput(TRUE, FALSE, EmptyDict)
TextPlain == StrOutput(FALSE, FALSE, EmptyDict)

\* The submissions of the model, as the extractor's answers to their texts:
\* one text of each kind, and two texts whose risk order differs from their
\* input order.
TextLists ==
    { <<DictFire>>, <<TextFire>>, <<TextFlood>>, <<TextBroken>>,
      <<TextFlood, TextFire>> }

\* Variant of EngineFallback: the severity of CrisisModel._fallback.
EngineFallbackMedium ==
    [crisis_type |-> "Unknown", location |-> "Unknown", severity |-> "Medium"]

EngineFallback ==
    [crisis_type |-> "Unknown", location |-> "Unknown", severity |-> "Low"]

\* _parse_crisis_response: raw_output.find raises AttributeError on a dict, and
\* the except clause catches only JSONDecodeError and ValueError.
parse_crisis_response(raw_output) ==
    IF raw_output.kind # "str"
    THEN [raised |-> TRUE, value |-> EmptyDict]
    ELSE IF raw_output.has_object /\ raw_output.valid
         THEN [raised |-> FALSE, value |-> raw_output.value]
         ELSE [raised |-> FALSE, value |-> EngineFallback]

\* process_crises, steps 1 and 2, for one text
crisis_of(raw_output) ==
    LET parsed == parse_crisis_response(raw_output)
        crisis_data == IF parsed.raised THEN EngineFallback ELSE parsed.value
    IN  [risk_score |-> calculate_risk(crisis_data)] @@ crisis_data

extract_all(raw_outputs) ==
    [i \in 1..Len(raw_outputs) |-> crisis_of(raw_outputs[i])]

\* The approval threshold of process_crises, in tenths (risk_score >= 4).
ApprovalThreshold == 40

\* Variant of IsHighRisk: every decision counts as high risk.
IsAnyRisk(d) == TRUE

IsHighRisk(d) == Get(d, "risk_score", 0) >= ApprovalThreshold

RECURSIVE SelectHighRisk(_)
SelectHighRisk(decisions) ==
    IF decisions = <<>> THEN <<>>
    ELSE IF IsHighRisk(Head(decisions))
         THEN <<Head(decisions)>> \o SelectHighRisk(Tail(decisions))
         ELSE SelectHighRisk(Tail(decisions))

\* Variant of NeedsApproval: the approval check is dropped.
NeverNeedsApproval(high_risk_cases, approved) == FALSE

NeedsApproval(high_risk_cases, approved) ==
    high_risk_cases # <<>> /\ ~approved

-----------------------------------------------------------------------------
\* services/surveillance.py

RECURSIVE surveillance_monitor(_)
surveillance_monitor(decisions) ==
    IF decisions = <<>> THEN <<>>
    ELSE LET decision == Head(decisions)
             alert == [message |-> "High Risk Ongoing",
                       location |-> Get(decision, "location", "None"),
                       crisis_type |-> Get(decision, "crisis_type", "None"),
                       risk_score |-> Get(decision, "risk_score", 0)]
         IN  IF Get(decision, "risk_score", 0) >= 40
             THEN <<alert>> \o surveillance_monitor(Tail(decisions))
             ELSE surveillance_monitor(Tail(decisions))

-----------------------------------------------------------------------------
\* services/audit.py

\* The submission an event of call c belongs to (history only: the code's
\* events carry no such field). A submit call is its own submission; a resolve
\* call works for the submission that drew its crisis_id.
SubmissionOf(c) == IF call[c].kind = "submit" THEN c ELSE call[c].crisis_id

\* Variant of record_event: the event takes the place of the last one.
record_event_in_place(c, event_type, data) ==
    audit_log' =
        IF audit_log = <<>>
        THEN <<[event_type |-> event_type, data |-> data, sub |-> SubmissionOf(c)]>>
        ELSE [audit_log EXCEPT ![Len(audit_log)] =
                [event_type |-> event_type, data |-> data, sub |-> SubmissionOf(c)]]

\* record_event: one append under audit_lock
record_event(c, event_type, data) ==
    audit_log' = Append(audit_log,
        [event_type |-> event_type, data |-> data, sub |-> SubmissionOf(c)])

-----------------------------------------------------------------------------
\* The handler calls

IdleCall ==
    [pc |-> "idle", kind |-> "none",
     raw_outputs |-> <<>>, approved |-> FALSE, crises |-> <<>>,
     decision_output |-> EmptyDict, result |-> EmptyDict,
     crisis_id |-> NoId, call_sid |-> "", response |-> EmptyDict,
     digit |-> "", dispatch_log |-> <<>>, execution_result |-> EmptyDict,
     elapsed |-> 0, overlapped |-> FALSE, found |-> FALSE, after_store |-> FALSE,
     notifier_started |-> FALSE]

\* no function is applied on its own
NoFunction == [name |-> "none"]

\* Calls are numbered in the order they begin.
MayBegin(c) ==
    /\ running = NoCall
    /\ call[c].pc = "idle"
    /\ \A b \in Calls : b < c => call[b].pc # "idle"

Init ==
    /\ audit_log = <<>>
    /\ pending_decisions = <<>>
    /\ pending_decisions_lock = NoCall
    /\ reports = <<>>
    /\ approval_calls = {}
    /\ call = [c \in Calls |-> IdleCall]
    /\ running = NoCall
    /\ now = 0
    /\ removed = [id \in CrisisIds |-> 0]
    /\ fn = NoFunction

\* ---- POST /crisis_command: crisis_command -> process_crises

\* process_crises steps 1-3: extract and score every text, CRISIS_RECEIVED
SubmitReceived(c) ==
    /\ MayBegin(c)
    /\ \E raw_outputs \in TextLists, approved \in BOOLEAN :
        LET crises == extract_all(raw_outputs) IN
        /\ call' = [call EXCEPT ![c] =
                [@ EXCEPT !.pc = "s_resolve", !.kind = "submit",
                          !.raw_outputs = raw_outputs, !.approved = approved,
                          !.crises = crises]]
        /\ audit_log' = Append(audit_log,
                [event_type |-> "CRISIS_RECEIVED",
                 data |-> [count |-> Len(crises), crises |-> crises], sub |-> c])
    /\ UNCHANGED <<pending_decisions, pending_decisions_lock, reports,
                   approval_calls, now, fn, removed>>
    /\ running' = c

\* Variant of SubmitDecided: step 4 without step 5, no DECISION_MADE event.
SubmitDecidedUnrecorded(c) ==
    /\ call[c].pc = "s_resolve"
    /\ call' = [call EXCEPT ![c] =
            [@ EXCEPT !.pc = "s_gate",
                      !.decision_output = resolve_conflicts(call[c].crises, resource_pool)]]
    /\ UNCHANGED <<audit_log, pending_decisions, pending_decisions_lock, reports,
                   approval_calls, running, now, fn, removed>>

\* process_crises steps 4-5: resolve_conflicts, DECISION_MADE
SubmitDecided(c) ==
    /\ call[c].pc = "s_resolve"
    /\ LET decision_output == resolve_conflicts(call[c].crises, resource_pool) IN
        /\ call' = [call EXCEPT ![c] =
                [@ EXCEPT !.pc = "s_gate", !.decision_output = decision_output]]
        /\ record_event(c, "DECISION_MADE",
                [allocated |-> Len(decision_output.decisions),
                 delayed |-> Len(decision_output.tradeoffs)])
    /\ UNCHANGED <<pending_decisions, pending_decisions_lock, reports,
                   approval_calls, running, now, fn, removed>>

\* process_crises step 6, authorization required: AUTHORIZATION_REQUIRED and
\* the PENDING_APPROVAL result, which has no decision_output key
SubmitAuthorizationRequired(c) ==
    /\ call[c].pc = "s_gate"
    /\ LET high_risk_cases == SelectHighRisk(call[c].decision_output.decisions) IN
        /\ NeedsApproval(high_risk_cases, call[c].approved)
        /\ call' = [call EXCEPT ![c] =
                [@ EXCEPT !.pc = "s_trigger",
                          !.result = [status |-> "PENDING_APPROVAL",
                                      details |-> high_risk_cases]]]
        /\ record_event(c, "AUTHORIZATION_REQUIRED",
                [high_risk_count |-> Len(high_risk_cases), risks |-> high_risk_cases])
    /\ UNCHANGED <<pending_decisions, pending_decisions_lock, reports,
                   approval_calls, running, now, fn, removed>>

\* process_crises after execute_dispatch returned: surveillance_monitor,
\* EXECUTION_COMPLETED, the EXECUTED result; crisis_command then answers
\* {"status": "UNKNOWN"} for every result that is not PENDING_APPROVAL
SubmitExecuted(c) ==
    /\ call[c].pc = "s_executed"
    /\ LET alerts == surveillance_monitor(Get(call[c].decision_output, "decisions", <<>>))
            result == [status |-> "EXECUTED",
                       execution_result |-> call[c].execution_result,
                       alerts |-> alerts]
        IN
        /\ record_event(c, "EXECUTION_COMPLETED",
                [execution_status |-> call[c].execution_result.execution_status,
                 dispatch_count |-> Len(call[c].execution_result.dispatch_log),
                 alert_count |-> Len(alerts)])
        /\ call' = [call EXCEPT ![c] =
                [@ EXCEPT !.pc = "done", !.result = result,
                          !.response = [status |-> "UNKNOWN"]]]
    /\ UNCHANGED <<pending_decisions, pending_decisions_lock, reports,
                   approval_calls, now, fn, removed>>
    /\ running' = NoCall

\* Variant of SubmitTriggerCall: the approval call is handed to a task and its
\* outcome is not waited for; the call reference is always the local one.
SubmitTriggerCallDetached(c) ==
    /\ call[c].pc = "s_trigger"
    /\ call[c].result.status = "PENDING_APPROVAL"
    /\ reports' = (c :> [approval_status |-> "PENDING", teams_notified |-> <<>>])
                        @@ reports
    /\ audit_log' = Append(audit_log,
            [event_type |-> "APPROVAL_CALL_TRIGGERED",
             data |-> [crisis_id |-> c, status |-> "Calling for approval..."],
             sub |-> c])
    /\ \E placed \in BOOLEAN :
        /\ approval_calls' = IF placed THEN approval_calls \cup {c} ELSE approval_calls
        /\ call' = [call EXCEPT ![c] =
                [@ EXCEPT !.pc = "s_store", !.crisis_id = c, !.call_sid = "SIM"]]
    /\ UNCHANGED <<pending_decisions, pending_decisions_lock, running, now, fn, removed>>

\* crisis_command, PENDING_APPROVAL: crisis_id = uuid4(), the PENDING row,
\* APPROVAL_CALL_TRIGGERED and trigger_approval_call, which places the call to
\* the officer or raises (call_sid is then a local SIM- reference). The row is
\* read by no other call before the call is placed, and the placed call by
\* none at all, so the three are one step.
SubmitTriggerCall(c) ==
    /\ call[c].pc = "s_trigger"
    /\ call[c].result.status = "PENDING_APPROVAL"
    /\ reports' = (c :> [approval_status |-> "PENDING", teams_notified |-> <<>>])
                        @@ reports
    /\ audit_log' = Append(audit_log,
            [event_type |-> "APPROVAL_CALL_TRIGGERED",
             data |-> [crisis_id |-> c, status |-> "Calling for approval..."],
             sub |-> c])
    /\ \E placed \in BOOLEAN :
        /\ approval_calls' = IF placed THEN approval_calls \cup {c} ELSE approval_calls
        /\ call' = [call EXCEPT ![c] =
                [@ EXCEPT !.pc = "s_store", !.crisis_id = c,
                          !.call_sid = IF placed THEN "CA" ELSE "SIM"]]
    /\ UNCHANGED <<pending_decisions, pending_decisions_lock, running, now, fn, removed>>

\* Variant of SubmitStore: no entry is stored when the approval call failed.
SubmitStorePlacedOnly(c) ==
    /\ call[c].pc = "s_store"
    /\ pending_decisions_lock = NoCall
    /\ pending_decisions' =
            IF call[c].call_sid = "SIM" THEN pending_decisions
            ELSE (call[c].crisis_id :>
                    [decision_output |-> Get(call[c].result, "decision_output", EmptyDict),
                     timestamp |-> now]) @@ pending_decisions
    /\ call' = [call EXCEPT ![c] =
            [@ EXCEPT !.pc = "done",
                      !.response = [status |-> "CALL_TRIGGERED",
                                    details |-> Get(call[c].result, "details", <<>>),
                                    crisis_id |-> call[c].crisis_id,
                                    call_sid |-> call[c].call_sid]]]
    /\ UNCHANGED <<audit_log, pending_decisions_lock, reports, approval_calls,
                   now, fn, removed>>
    /\ running' = NoCall

\* Variant of SubmitStore: the map is replaced by one that holds the new entry
\* alone.
SubmitStoreAlone(c) ==
    /\ call[c].pc = "s_store"
    /\ pending_decisions_lock = NoCall
    /\ pending_decisions' =
            (call[c].crisis_id :>
                [decision_output |-> Get(call[c].result, "decision_output", EmptyDict),
                 timestamp |-> now])
    /\ call' = [call EXCEPT ![c] =
            [@ EXCEPT !.pc = "done",
                      !.response = [status |-> "CALL_TRIGGERED",
                                    details |-> Get(call[c].result, "details", <<>>),
                                    crisis_id |-> call[c].crisis_id,
                                    call_sid |-> call[c].call_sid]]]
    /\ UNCHANGED <<audit_log, pending_decisions_lock, reports, approval_calls,
                   now, fn, removed>>
    /\ running' = NoCall

\* crisis_command: with pending_decisions_lock, store the entry; return
SubmitStore(c) ==
    /\ call[c].pc = "s_store"
    /\ pending_decisions_lock = NoCall
    /\ pending_decisions' =
            (call[c].crisis_id :>
                [decision_output |-> Get(call[c].result, "decision_output", EmptyDict),
                 timestamp |-> now]) @@ pending_decisions
    /\ call' = [call EXCEPT ![c] =
            [@ EXCEPT !.pc = "done",
                      !.response = [status |-> "CALL_TRIGGERED",
                                    details |-> Get(call[c].result, "details", <<>>),
                                    crisis_id |-> call[c].crisis_id,
                                    call_sid |-> call[c].call_sid]]]
    /\ UNCHANGED <<audit_log, pending_decisions_lock, reports, approval_calls,
                   now, fn, removed>>
    /\ running' = NoCall

\* ---- services/dispatcher.py: execute_dispatch(decision_output), run by call c

\* Variant of NoAction: an empty dispatch reported as a completed one.
NoActionAsCompleted == [execution_status |-> "COMPLETED", dispatch_log |-> <<>>]

NoAction == [execution_status |-> "NO_ACTION", dispatch_log |-> <<>>]

\* Call c is inside execute_dispatch: a submit call that passed the approval
\* check of process_crises (a local test, taken together with the dispatcher's
\* first step), or a resolve call on its approved branch.
InDispatch(c) ==
    \/ call[c].pc = "dispatch"
    \/ /\ call[c].pc = "s_gate"
       /\ ~NeedsApproval(SelectHighRisk(call[c].decision_output.decisions),
                         call[c].approved)

ReturnTo(c) == IF call[c].kind = "submit" THEN "s_executed" ELSE "r_approved"

\* `if not decision_output`: NO_ACTION without any event
DispatchNothing(c) ==
    /\ InDispatch(c)
    /\ Falsy(call[c].decision_output)
    /\ call' = [call EXCEPT ![c] =
            [@ EXCEPT !.pc = ReturnTo(c), !.execution_result = NoAction]]
    /\ UNCHANGED <<audit_log, pending_decisions, pending_decisions_lock, reports,
                   approval_calls, running, now, fn, removed>>

\* `if not decisions`: DISPATCH_SKIPPED, NO_ACTION
DispatchSkipped(c) ==
    /\ InDispatch(c)
    /\ ~Falsy(call[c].decision_output)
    /\ Get(call[c].decision_output, "decisions", <<>>) = <<>>
    /\ record_event(c, "DISPATCH_SKIPPED", [reason |-> "No allocated decisions"])
    /\ call' = [call EXCEPT ![c] =
            [@ EXCEPT !.pc = ReturnTo(c), !.execution_result = NoAction]]
    /\ UNCHANGED <<pending_decisions, pending_decisions_lock, reports,
                   approval_calls, running, now, fn, removed>>

\* one turn of `for decision in decisions`: the log entry and UNIT_DISPATCHED
DispatchUnit(c) ==
    /\ InDispatch(c)
    /\ ~Falsy(call[c].decision_output)
    /\ LET decisions == Get(call[c].decision_output, "decisions", <<>>)
            i == Len(call[c].dispatch_log) + 1
        IN
        /\ i <= Len(decisions)
        /\ LET unit_type == Get(decisions[i], "crisis_type", "Unknown")
                location == Get(decisions[i], "location", "Unknown")
                risk_score == Get(decisions[i], "risk_score", 0)
            IN
            /\ call' = [call EXCEPT ![c] =
                    [@ EXCEPT !.pc = "dispatch", !.dispatch_log = Append(@,
                        [unit_type |-> unit_type, destination |-> location,
                         status |-> "Dispatched", risk_score |-> risk_score])]]
            /\ record_event(c, "UNIT_DISPATCHED",
                    [unit_type |-> unit_type, destination |-> location,
                     risk_score |-> risk_score])
    /\ UNCHANGED <<pending_decisions, pending_decisions_lock, reports,
                   approval_calls, running, now, fn, removed>>

\* Variant of DispatchCompleted: the loop is left after its first turn.
DispatchCompletedEarly(c) ==
    /\ InDispatch(c)
    /\ ~Falsy(call[c].decision_output)
    /\ Len(call[c].dispatch_log) >= 1
    /\ record_event(c, "DISPATCH_COMPLETED",
            [total_units |-> Len(call[c].dispatch_log),
             remaining_resources |->
                Get(call[c].decision_output, "remaining_resources", EmptyDict)])
    /\ call' = [call EXCEPT ![c] =
            [@ EXCEPT !.pc = ReturnTo(c),
                      !.execution_result = [execution_status |-> "COMPLETED",
                                            dispatch_log |-> call[c].dispatch_log]]]
    /\ UNCHANGED <<pending_decisions, pending_decisions_lock, reports,
                   approval_calls, running, now, fn, removed>>

\* after the loop: DISPATCH_COMPLETED, COMPLETED
DispatchCompleted(c) ==
    /\ InDispatch(c)
    /\ ~Falsy(call[c].decision_output)
    /\ LET decisions == Get(call[c].decision_output, "decisions", <<>>) IN
        /\ decisions # <<>>
        /\ Len(call[c].dispatch_log) = Len(decisions)
    /\ record_event(c, "DISPATCH_COMPLETED",
            [total_units |-> Len(call[c].dispatch_log),
             remaining_resources |->
                Get(call[c].decision_output, "remaining_resources", EmptyDict)])
    /\ call' = [call EXCEPT ![c] =
            [@ EXCEPT !.pc = ReturnTo(c),
                      !.execution_result = [execution_status |-> "COMPLETED",
                                            dispatch_log |-> call[c].dispatch_log]]]
    /\ UNCHANGED <<pending_decisions, pending_decisions_lock, reports,
                   approval_calls, running, now, fn, removed>>

\* ---- GET/POST /process: process (the resolution of an approval)

\* The Digits field of the posted form; "none" when there is no form or no digit
Digits == {"6", "1", "none"}

ApprovalDigit == "6"

\* Variant of IsApproval: every digit approves.
AnyDigitApproves(digit) == TRUE

IsApproval(digit) == digit = ApprovalDigit

\* the lock can be taken by a call
LockFree == pending_decisions_lock = NoCall

\* `if crisis_id is None`: the error answer
ResolveNoId(c) ==
    /\ MayBegin(c)
    /\ call' = [call EXCEPT ![c] =
            [@ EXCEPT !.pc = "done", !.kind = "resolve",
                      !.response = [say |-> "An error occurred. Goodbye."]]]
    /\ UNCHANGED <<audit_log, pending_decisions, pending_decisions_lock, reports,
                   approval_calls, running, now, fn, removed>>

\* The crisis ids the outside world has learnt: the approval call carries the
\* id in its voice URL, and the CALL_TRIGGERED answer returns it. A uuid4 is
\* not guessed, so a request names one of these or an id nobody ever drew.
IssuedIds ==
    approval_calls \cup
    { b \in Calls : call[b].kind = "submit" /\ call[b].pc = "done"
                     /\ call[b].crisis_id # NoId }

\* The request arrives with a crisis_id; the form is read (await
\* request.form()). The call's own index stands for an id that was never drawn.
ResolveBegin(c) ==
    /\ MayBegin(c)
    /\ \E id \in IssuedIds \cup {c}, digit \in Digits :
        call' = [call EXCEPT ![c] =
            [@ EXCEPT !.pc = "r_lock", !.kind = "resolve",
                      !.crisis_id = id, !.digit = digit]]
    /\ UNCHANGED <<audit_log, pending_decisions, pending_decisions_lock, reports,
                   approval_calls, running, now, fn, removed>>

\* Variant of ResolveNotFound: the miss is recorded in the audit log.
ResolveNotFoundLogged(c) ==
    /\ call[c].pc = "r_lock"
    /\ running = NoCall
    /\ LockFree
    /\ call[c].crisis_id \notin DOMAIN pending_decisions
    /\ call' = [call EXCEPT ![c] =
            [@ EXCEPT !.pc = "done", !.response = [say |-> "Crisis expired."],
                      !.after_store = removed[call[c].crisis_id] > 0]]
    /\ record_event(c, "APPROVAL_EXPIRED", [crisis_id |-> call[c].crisis_id])
    /\ UNCHANGED <<pending_decisions, pending_decisions_lock, reports,
                   approval_calls, running, now, fn, removed>>

\* with pending_decisions_lock: crisis_id not in pending_decisions, "Crisis
\* expired."; the return leaves the with block and releases the lock
ResolveNotFound(c) ==
    /\ call[c].pc = "r_lock"
    /\ running = NoCall
    /\ LockFree
    /\ call[c].crisis_id \notin DOMAIN pending_decisions
    /\ call' = [call EXCEPT ![c] =
            [@ EXCEPT !.pc = "done", !.response = [say |-> "Crisis expired."],
                      !.after_store = removed[call[c].crisis_id] > 0]]
    /\ UNCHANGED <<audit_log, pending_decisions, pending_decisions_lock, reports,
                   approval_calls, running, now, fn, removed>>

\* Call c takes the lock and finds its entry: the locals after
\* `decision_output = pending_decisions[crisis_id]["decision_output"]`.
\* History: elapsed is the age of the entry at this moment, overlapped marks
\* the resolve calls that were waiting for the lock when c took it, and
\* after_store says that the entry had been stored when the call looked it up.
Found(c, pc) ==
    [b \in Calls |->
        IF b = c
        THEN [call[c] EXCEPT
                !.pc = pc, !.found = TRUE, !.after_store = TRUE,
                !.decision_output = pending_decisions[call[c].crisis_id].decision_output,
                !.elapsed = now - pending_decisions[call[c].crisis_id].timestamp]
        ELSE IF call[b].pc = "r_lock"
             THEN [call[b] EXCEPT !.overlapped = TRUE]
             ELSE call[b]]

\* Variant of ResolveApprove: the lock is let go before execute_dispatch.
ResolveApproveUnlocked(c) ==
    /\ call[c].pc = "r_lock"
    /\ running = NoCall
    /\ LockFree
    /\ call[c].crisis_id \in DOMAIN pending_decisions
    /\ IsApproval(call[c].digit)
    /\ record_event(c, "APPROVAL_GRANTED",
            [crisis_id |-> call[c].crisis_id, status |-> "Approved by Officer",
             details |-> "Units dispatching"])
    /\ call' = Found(c, "dispatch")
    /\ UNCHANGED <<pending_decisions, pending_decisions_lock, reports,
                   approval_calls, now, fn, removed>>
    /\ running' = c

\* with pending_decisions_lock, entry found, `if digit == "6"`:
\* APPROVAL_GRANTED, then execute_dispatch(decision_output)
ResolveApprove(c) ==
    /\ call[c].pc = "r_lock"
    /\ running = NoCall
    /\ LockFree
    /\ call[c].crisis_id \in DOMAIN pending_decisions
    /\ IsApproval(call[c].digit)
    /\ pending_decisions_lock' = c
    /\ record_event(c, "APPROVAL_GRANTED",
            [crisis_id |-> call[c].crisis_id, status |-> "Approved by Officer",
             details |-> "Units dispatching"])
    /\ call' = Found(c, "dispatch")
    /\ UNCHANGED <<pending_decisions, reports, approval_calls, now, fn, removed>>
    /\ running' = c

\* with pending_decisions_lock, entry found, else branch: APPROVAL_REJECTED
ResolveReject(c) ==
    /\ call[c].pc = "r_lock"
    /\ running = NoCall
    /\ LockFree
    /\ call[c].crisis_id \in DOMAIN pending_decisions
    /\ ~IsApproval(call[c].digit)
    /\ pending_decisions_lock' = c
    /\ record_event(c, "APPROVAL_REJECTED",
            [crisis_id |-> call[c].crisis_id, status |-> "Rejected by Officer"])
    /\ call' = Found(c, "r_rejected")
    /\ UNCHANGED <<pending_decisions, reports, approval_calls, now, fn, removed>>
    /\ running' = c

\* Variant of SetStatus: the status of the row is never committed.
KeepStatus(rows, id, status) == rows

SetStatus(rows, id, status) ==
    IF id \in DOMAIN rows
    THEN [rows EXCEPT ![id] = [@ EXCEPT !.approval_status = status]]
    ELSE rows

\* Variant of Without: every key is dropped.
WithoutAny(f, k) == <<>>

Without(f, k) == [x \in DOMAIN f \ {k} |-> f[x]]

\* Variant of Delete: the entry is left in the map.
KeepEntry(entries, id) == entries

\* `del pending_decisions[crisis_id]`
Delete(entries, id) == Without(entries, id)

\* `if decision_output.get("decisions")`: the notify_and_log thread is started,
\* on the approved branch only
StartsNotifier(c, status) ==
    /\ status = "APPROVED"
    /\ Get(call[c].decision_output, "decisions", <<>>) # <<>>

\* The end of the with block on either branch: the row's status is committed,
\* the entry is deleted and the lock released. The calls that could read the
\* row or the map in between are held off by the lock, so this is one step.
Finish(c, status, say) ==
    /\ reports' = SetStatus(reports, call[c].crisis_id, status)
    /\ pending_decisions' = Delete(pending_decisions, call[c].crisis_id)
    /\ removed' = [removed EXCEPT ![call[c].crisis_id] =
                        IF call[c].crisis_id \in DOMAIN pending_decisions
                            /\ call[c].crisis_id \notin DOMAIN pending_decisions'
                        THEN @ + 1 ELSE @]
    /\ pending_decisions_lock' = NoCall
    /\ call' = [call EXCEPT ![c] =
            [@ EXCEPT !.pc = "done", !.response = [say |-> say],
                      !.notifier_started = StartsNotifier(c, status)]]
    /\ UNCHANGED <<audit_log, approval_calls, now, fn>>
    /\ running' = NoCall

\* approved branch after execute_dispatch
ResolveApproved(c) ==
    /\ call[c].pc = "r_approved"
    /\ Finish(c, "APPROVED", "Approved. Units dispatched and emergency teams notified.")

\* else branch after APPROVAL_REJECTED
ResolveRejected(c) ==
    /\ call[c].pc = "r_rejected"
    /\ Finish(c, "REJECTED", "Rejected.")

\* ---- time passes
Tick ==
    /\ now < MaxTicks * TickSeconds
    /\ now' = now + TickSeconds
    /\ UNCHANGED <<audit_log, pending_decisions, pending_decisions_lock, reports,
                   approval_calls, call, running, removed, fn>>

Next ==
    \/ \E c \in Calls :
        \/ SubmitReceived(c)
        \/ SubmitDecided(c)
        \/ SubmitAuthorizationRequired(c)
        \/ SubmitExecuted(c)
        \/ SubmitTriggerCall(c)
        \/ SubmitStore(c)
        \/ DispatchNothing(c)
        \/ DispatchSkipped(c)
        \/ DispatchUnit(c)
        \/ DispatchCompleted(c)
        \/ ResolveNoId(c)
        \/ ResolveBegin(c)
        \/ ResolveNotFound(c)
        \/ ResolveApprove(c)
        \/ ResolveApproved(c)
        \/ ResolveReject(c)
        \/ ResolveRejected(c)

\* The handlers, with the clock at rest: no handler reads it.
Spec == Init /\ [][Next]_vars

\* The handlers and the clock.
SpecTimed == Init /\ [][Next \/ Tick]_vars

\* ---- the persistence store fails: session.commit() raises, nothing catches
\* it in crisis_command or process, and the framework answers the request
\* with an error

\* the answer to a request whose handler raised
ServerError == [error |-> "Internal Server Error"]

\* crisis_command, PENDING_APPROVAL: session.commit() of the PENDING row
\* raises; no row, no event, no approval call, no entry
SubmitCommitFails(c) ==
    /\ call[c].pc = "s_trigger"
    /\ call[c].result.status = "PENDING_APPROVAL"
    /\ call' = [call EXCEPT ![c] = [@ EXCEPT !.pc = "done", !.response = ServerError]]
    /\ running' = NoCall
    /\ UNCHANGED <<audit_log, pending_decisions, pending_decisions_lock, reports,
                   approval_calls, now, fn, removed>>

\* process, either branch: session.commit() of the row's new status raises
\* inside the with block; the lock is released, the row keeps its status and
\* the entry stays in the map
ResolveCommitFails(c) ==
    /\ call[c].pc \in {"r_approved", "r_rejected"}
    /\ call[c].crisis_id \in DOMAIN reports
    /\ pending_decisions_lock' = NoCall
    /\ call' = [call EXCEPT ![c] = [@ EXCEPT !.pc = "done", !.response = ServerError]]
    /\ running' = NoCall
    /\ UNCHANGED <<audit_log, pending_decisions, reports, approval_calls, now, fn,
                   removed>>

PersistenceFails ==
    \E c \in Calls : SubmitCommitFails(c) \/ ResolveCommitFails(c)

\* The handlers, with a persistence store that can fail.
SpecFailures == Init /\ [][Next \/ PersistenceFails]_vars

-----------------------------------------------------------------------------
\* Functions applied on their own, outside any handler call

\* Number of texts of a submission.
MaxTexts == 2

\* extract_crisis answers with its _fallback record when the request failed
DictFailed == DictOutput(ModelFallback)

RawOutputs == {DictFire, DictFailed, TextFire, TextFlood, TextBroken, TextPlain}

RawOutputLists == UNION { [1..n -> RawOutputs] : n \in 0..MaxTexts }

\* process_crises steps 1-4 on the extractor's answers to the texts
ApplyExtraction ==
    /\ fn.name = "none"
    /\ \E raw_outputs \in RawOutputLists :
        LET crises == extract_all(raw_outputs) IN
        fn' = [name |-> "process_crises", raw_outputs |-> raw_outputs,
               crises |-> crises,
               decision_output |-> resolve_conflicts(crises, resource_pool)]
    /\ UNCHANGED hvars

\* ---- resolve_conflicts(crisis_list, resources), one loop turn at a time.
\* Dicts that are updated in place live in fn.heap and are named by their
\* position in it: position 1 is the resource_pool of the engine, which is
\* handed to resolve_conflicts as `resources` by every process_crises call.

\* Length of a crisis list.
MaxCrises == 3
\* Number of resolve_conflicts calls made on one engine.
MaxRuns == 2

\* The crises of the lists: a type with an entry in the pool, or without one,
\* or no crisis_type key at all; a risk score in tenths. n is history: the
\* position of the crisis in the input list.
CrisisTypes == {"Fire", "Flood", "Volcano", "absent"}

RiskScores == {10, 50}

CrisisAt(n, crisis_type, risk_score) ==
    IF crisis_type = "absent"
    THEN [risk_score |-> risk_score, n |-> n]
    ELSE [crisis_type |-> crisis_type, risk_score |-> risk_score, n |-> n]

CrisisLists ==
    UNION { { [i \in 1..len |-> CrisisAt(i, types[i], scores[i])] :
                types \in [1..len -> CrisisTypes], scores \in [1..len -> RiskScores] } :
            len \in 0..MaxCrises }

\* The pools an engine is configured with: the pool of CrisisEngine.__init__,
\* and a scarce one.
ScarcePool == ("Fire" :> 1) @@ ("Flood" :> 0)

Pools == {resource_pool, ScarcePool}

PoolRef == 1

\* Variant of CopyDict: no copy is made, the same dict is used.
SameDict(heap, ref) == [heap |-> heap, ref |-> ref]

\* d.copy(): a new dict with the entries of heap[ref]
CopyDict(heap, ref) == [heap |-> Append(heap, heap[ref]), ref |-> Len(heap) + 1]

\* resolve_conflicts is entered: on a new engine, or on the engine of the
\* call before. resources.copy(), sorted(...), the empty lists.
ResolverCall ==
    /\ \/ fn.name = "none"
       \/ fn.name = "resolve_conflicts" /\ fn.pc = "idle" /\ fn.runs < MaxRuns
    /\ \E crisis_list \in CrisisLists, pool \in Pools :
        LET first == fn.name = "none"
            heap == IF first THEN <<pool>> ELSE fn.heap
            copied == CopyDict(heap, PoolRef)
        IN
        /\ IF first THEN TRUE ELSE pool = fn.configured
        /\ fn' = [name |-> "resolve_conflicts", pc |-> "loop",
                  configured |-> pool,
                  runs |-> IF first THEN 1 ELSE fn.runs + 1,
                  earlier |-> IF first THEN 0 ELSE fn.earlier,
                  heap |-> copied.heap,
                  resources |-> PoolRef,
                  remaining_resources |-> copied.ref,
                  crisis_list |-> crisis_list,
                  sorted_crises |-> SortedDesc(crisis_list),
                  i |-> 1, decisions |-> <<>>, tradeoffs |-> <<>>,
                  result |-> EmptyDict]
    /\ UNCHANGED hvars

\* one turn of `for crisis in sorted_crises`
ResolverStep ==
    /\ fn.name = "resolve_conflicts"
    /\ fn.pc = "loop"
    /\ fn.i <= Len(fn.sorted_crises)
    /\ LET crisis == fn.sorted_crises[fn.i]
            crisis_type == Get(crisis, "crisis_type", "None")
            remaining == fn.heap[fn.remaining_resources]
        IN  IF HasResource(remaining, crisis_type)
            THEN fn' = [fn EXCEPT
                    !.heap[fn.remaining_resources][crisis_type] = @ - 1,
                    !.decisions = Append(@, Allocated(crisis)),
                    !.i = @ + 1]
            ELSE fn' = [fn EXCEPT
                    !.tradeoffs = Append(@, Delayed(crisis)),
                    !.i = @ + 1]
    /\ UNCHANGED hvars

\* the return statement
ResolverReturn ==
    /\ fn.name = "resolve_conflicts"
    /\ fn.pc = "loop"
    /\ fn.i > Len(fn.sorted_crises)
    /\ fn' = [fn EXCEPT !.pc = "returned",
                        !.result = [decisions |-> fn.decisions,
                                    tradeoffs |-> fn.tradeoffs,
                                    remaining_resources |->
                                        fn.heap[fn.remaining_resources]]]
    /\ UNCHANGED hvars

\* The caller is done with the result: the locals of the call are gone, the
\* engine and its pool stay.
ResolverLeave ==
    /\ fn.name = "resolve_conflicts"
    /\ fn.pc = "returned"
    /\ fn' = [name |-> "resolve_conflicts", pc |-> "idle",
              configured |-> fn.configured, runs |-> fn.runs,
              earlier |-> fn.earlier + Len(fn.decisions),
              heap |-> <<fn.heap[PoolRef]>>,
              resources |-> PoolRef, remaining_resources |-> PoolRef,
              crisis_list |-> <<>>, sorted_crises |-> <<>>,
              i |-> 1, decisions |-> <<>>, tradeoffs |-> <<>>,
              result |-> EmptyDict]
    /\ UNCHANGED hvars

\* ---- calculate_risk(crisis)

\* The values of the keys of a crisis; "absent" is a crisis without the key.
SeverityValues ==
    {"Low", "low", "Medium", "Moderate", "High", "HIGH", "major", "severe",
     "Critical", "critical", "extreme", "", "absent"}

TypeValues ==
    {"Fire", "fire", "Flood", "Gas Leak", "Accident", "Industrial Accident",
     "Earthquake", "Unknown", "Volcano", "", "absent"}

RiskFactorValues ==
    {"", "absent", "Not specified", "fuel storage nearby", "Fuel depot",
     "refuelling station", "fuel leak near fuel tanks", "Toxic CHEMICAL smoke",
     "nuclear fuel, radiation, casualties"}

\* the dict with key k, unless the value is "absent"
Field(k, value) == IF value = "absent" THEN EmptyDict ELSE (k :> value)

CrisisWith(severity, crisis_type, risk_factor) ==
    Field("severity", severity) @@ Field("crisis_type", crisis_type)
        @@ Field("risk_factor", risk_factor)

ApplyCalculateRisk ==
    /\ fn.name = "none"
    /\ \E severity \in SeverityValues, crisis_type \in TypeValues,
          risk_factor \in RiskFactorValues :
        LET crisis == CrisisWith(severity, crisis_type, risk_factor) IN
        fn' = [name |-> "calculate_risk", crisis |-> crisis,
               risk_score |-> calculate_risk(crisis)]
    /\ UNCHANGED hvars

NextFunctions ==
    \/ ApplyExtraction
    \/ ApplyCalculateRisk
    \/ ResolverCall
    \/ ResolverStep
    \/ ResolverReturn
    \/ ResolverLeave

\* The functions, each applied to arguments of its domain.
SpecFunctions == Init /\ [][NextFunctions]_vars

-----------------------------------------------------------------------------
\* resolve_conflicts on crisis records that carry other keys, among them the
\* keys resolve_conflicts itself sets. fn.crisis_list is the list object the
\* caller handed in, as it is now; fn.given is history, the list as it was
\* handed in.

\* The records of the lists; a record without crisis_type among them.
RecordKinds ==
    { [crisis_type |-> "Fire", risk_score |-> 50, location |-> "Sector 12"],
      [crisis_type |-> "Fire", risk_score |-> 10, status |-> "ongoing"],
      [crisis_type |-> "Flood", risk_score |-> 10, reason |-> "storm"],
      [crisis_type |-> "Volcano", risk_score |-> 50, action |-> "evacuate"],
      [risk_score |-> 10, location |-> "Riverside"] }

\* n is history: the position of the record in the list handed in
RecordLists ==
    UNION { { [i \in 1..len |-> [n |-> i] @@ kinds[i]] : kinds \in [1..len -> RecordKinds] } :
            len \in 0..MaxCrises }

\* resolve_conflicts is called
ResolveRecordsCall ==
    /\ fn.name = "none"
    /\ \E crisis_list \in RecordLists, resources \in Pools :
        fn' = [name |-> "resolve_conflicts_records", pc |-> "called",
               crisis_list |-> crisis_list, given |-> crisis_list,
               resources |-> resources, result |-> EmptyDict]
    /\ UNCHANGED hvars

\* Variant of ListAfterSorted: crisis_list.sort(...), the list itself is put
\* in order.
ListAfterSort(crisis_list) == SortedDesc(crisis_list)

\* sorted(crisis_list, ...) returns a new list; crisis_list is as it was. The
\* dicts of the outputs are new ones too: {**crisis, ...}.
ListAfterSorted(crisis_list) == crisis_list

\* resolve_conflicts returns
ResolveRecordsReturn ==
    /\ fn.name = "resolve_conflicts_records"
    /\ fn.pc = "called"
    /\ fn' = [fn EXCEPT !.pc = "returned",
                        !.crisis_list = ListAfterSorted(fn.crisis_list),
                        !.result = resolve_conflicts(fn.crisis_list, fn.resources)]
    /\ UNCHANGED hvars

NextRecords == ResolveRecordsCall \/ ResolveRecordsReturn

\* resolve_conflicts, applied to lists of records with keys of their own.
SpecRecords == Init /\ [][NextRecords]_vars

-----------------------------------------------------------------------------
\* ai_model.py: the normalisation of the extracted crisis type and severity.
\*
\* A Python string is the sequence of its characters. The characters are the
\* ASCII letters, the space, the hyphen, and U+FB01, the ligature of f and i:
\* a lower-case letter whose title case is the two characters F and i.

LowerCase ==
    <<"a", "b", "c", "d", "e", "f", "g", "h", "i", "j", "k", "l", "m",
      "n", "o", "p", "q", "r", "s", "t", "u", "v", "w", "x", "y", "z">>

UpperCase ==
    <<"A", "B", "C", "D", "E", "F", "G", "H", "I", "J", "K", "L", "M",
      "N", "O", "P", "Q", "R", "S", "T", "U", "V", "W", "X", "Y", "Z">>

Ligature == "U+FB01"

IsLower(ch) == ch = Ligature \/ \E i \in DOMAIN LowerCase : LowerCase[i] = ch

IsUpper(ch) == \E i \in DOMAIN UpperCase : UpperCase[i] = ch

\* a character with case, as str.title() sees it
IsCased(ch) == IsLower(ch) \/ IsUpper(ch)

\* the lower case of a character
LowerChar(ch) ==
    IF IsUpper(ch)
    THEN LowerCase[CHOOSE i \in DOMAIN UpperCase : UpperCase[i] = ch]
    ELSE ch

\* the title case of a character: a string, of two characters for the ligature
TitleChar(ch) ==
    IF ch = Ligature THEN <<"F", "i">>
    ELSE IF IsLower(ch)
         THEN <<UpperCase[CHOOSE i \in DOMAIN LowerCase : LowerCase[i] = ch]>>
         ELSE <<ch>>

\* str.lower()
StrLower(str) == [i \in DOMAIN str |-> LowerChar(str[i])]

RECURSIVE TitleFrom(_, _)
\* str.title(), from a position on: a cased character after a cased one is
\* lower-cased, any other character title-cased
TitleFrom(str, previous_is_cased) ==
    IF str = <<>> THEN <<>>
    ELSE (IF previous_is_cased THEN <<LowerChar(Head(str))>> ELSE TitleChar(Head(str)))
            \o TitleFrom(Tail(str), IsCased(Head(str)))

\* str.title()
StrTitle(str) == TitleFrom(str, FALSE)

RECURSIVE StripLeft(_)
StripLeft(str) ==
    IF str # <<>> /\ Head(str) = " " THEN StripLeft(Tail(str)) ELSE str

RECURSIVE StripRight(_)
StripRight(str) ==
    IF str # <<>> /\ str[Len(str)] = " "
    THEN StripRight(SubSeq(str, 1, Len(str) - 1))
    ELSE str

\* str.strip()
StrStrip(str) == StripRight(StripLeft(str))

\* sub in str
Contains(sub, str) ==
    \E i \in 0..(Len(str) - Len(sub)) : SubSeq(str, i + 1, i + Len(sub)) = sub

\* Variant of normalize_severity: "High" is reported as "Very High".
normalize_severity_relabelled(raw) ==
    LET value == StrLower(raw) IN
    IF Contains(<<"c", "r", "i", "t", "i", "c", "a", "l">>, value)
        \/ Contains(<<"v", "e", "r", "y", " ", "h", "i", "g", "h">>, value)
    THEN <<"C", "r", "i", "t", "i", "c", "a", "l">>
    ELSE IF Contains(<<"h", "i", "g", "h">>, value) THEN <<"V", "e", "r", "y", " ", "H", "i", "g", "h">>
    ELSE IF Contains(<<"m", "e", "d", "i", "u", "m">>, value) THEN <<"M", "e", "d", "i", "u", "m">>
    ELSE IF Contains(<<"l", "o", "w">>, value) THEN <<"L", "o", "w">>
    ELSE <<"M", "e", "d", "i", "u", "m">>

\* _normalize_severity
normalize_severity(raw) ==
    LET value == StrLower(raw) IN
    IF Contains(<<"c", "r", "i", "t", "i", "c", "a", "l">>, value)
        \/ Contains(<<"v", "e", "r", "y", " ", "h", "i", "g", "h">>, value)
    THEN <<"C", "r", "i", "t", "i", "c", "a", "l">>
    ELSE IF Contains(<<"h", "i", "g", "h">>, value) THEN <<"H", "i", "g", "h">>
    ELSE IF Contains(<<"m", "e", "d", "i", "u", "m">>, value) THEN <<"M", "e", "d", "i", "u", "m">>
    ELSE IF Contains(<<"l", "o", "w">>, value) THEN <<"L", "o", "w">>
    ELSE <<"M", "e", "d", "i", "u", "m">>

\* the dict `mapping` of _normalize_type
mapping ==
    (<<"f", "i", "r", "e">> :> <<"F", "i", "r", "e">>)
        @@ (<<"f", "i", "r", "e", " ", "a", "c", "c", "i", "d", "e", "n", "t">> :> <<"F", "i", "r", "e">>)
        @@ (<<"f", "i", "r", "e", " ", "e", "m", "e", "r", "g", "e", "n", "c", "y">> :> <<"F", "i", "r", "e">>)
        @@ (<<"f", "l", "o", "o", "d">> :> <<"F", "l", "o", "o", "d">>)
        @@ (<<"f", "l", "o", "o", "d", "i", "n", "g">> :> <<"F", "l", "o", "o", "d">>)
        @@ (<<"g", "a", "s", " ", "l", "e", "a", "k">> :> <<"G", "a", "s", " ", "L", "e", "a", "k">>)
        @@ (<<"e", "x", "p", "l", "o", "s", "i", "o", "n">> :> <<"G", "a", "s", " ", "L", "e", "a", "k">>)
        @@ (<<"a", "c", "c", "i", "d", "e", "n", "t">> :> <<"A", "c", "c", "i", "d", "e", "n", "t">>)
        @@ (<<"e", "a", "r", "t", "h", "q", "u", "a", "k", "e">> :> <<"E", "a", "r", "t", "h", "q", "u", "a", "k", "e">>)

\* Variant of normalize_type: a type that is no key of the mapping is Unknown.
normalize_type_or_unknown(raw) ==
    LET crisis_type == StrLower(StrStrip(raw)) IN
    Get(mapping, crisis_type, <<"U", "n", "k", "n", "o", "w", "n">>)

\* _normalize_type: mapping.get(crisis_type, crisis_type.title())
normalize_type(raw) ==
    LET crisis_type == StrLower(StrStrip(raw)) IN
    Get(mapping, crisis_type, StrTitle(crisis_type))

\* The crisis types the extractor's answer is cleaned from.
RawTypes ==
    { <<"f", "i", "r", "e">>,
      <<" ", "F", "i", "r", "e", " ">>,
      <<"F", "I", "R", "E", " ", "A", "C", "C", "I", "D", "E", "N", "T">>,
      <<"f", "i", "r", "e", " ", "e", "m", "e", "r", "g", "e", "n", "c", "y">>,
      <<"F", "l", "o", "o", "d">>,
      <<"f", "l", "o", "o", "d", "i", "n", "g">>,
      <<"g", "a", "s", " ", "l", "e", "a", "k">>,
      <<"e", "x", "p", "l", "o", "s", "i", "o", "n">>,
      <<"A", "c", "c", "i", "d", "e", "n", "t">>,
      <<"e", "a", "r", "t", "h", "q", "u", "a", "k", "e">>,
      <<"v", "o", "l", "c", "a", "n", "o">>,
      <<"b", "i", "g", " ", "f", "i", "r", "e">>,
      <<>>,
      <<"U", "n", "k", "n", "o", "w", "n">>,
      <<"U+FB01", "r", "e", " ", "a", "c", "c", "i", "d", "e", "n", "t">> }

\* The severities the extractor's answer is cleaned from.
RawSeverities ==
    { <<"H", "I", "G", "H">>,
      <<"v", "e", "r", "y", " ", "h", "i", "g", "h">>,
      <<"C", "r", "i", "t", "i", "c", "a", "l">>,
      <<"m", "e", "d", "i", "u", "m">>,
      <<"M", "o", "d", "e", "r", "a", "t", "e">>,
      <<"l", "o", "w">>,
      <<>>,
      <<"h", "i", "g", "h", " ", "t", "o", " ", "c", "r", "i", "t", "i", "c", "a", "l">>,
      <<"m", "e", "d", "i", "u", "m", "-", "l", "o", "w">>,
      <<"V", "e", "r", "y", " ", "H", "i", "g", "h">> }

\* extract_crisis, the cleaning of the two normalised fields of the answer
ApplyNormalize ==
    /\ fn.name = "none"
    /\ \E crisis_type \in RawTypes, severity \in RawSeverities :
        fn' = [name |-> "extract_crisis", pc |-> "cleaned",
               data |-> [crisis_type |-> crisis_type, severity |-> severity],
               cleaned |-> [crisis_type |-> normalize_type(crisis_type),
                            severity |-> normalize_severity(severity)],
               again |-> EmptyDict]
    /\ UNCHANGED hvars

\* the two normalisers applied to what they returned
ApplyNormalizeAgain ==
    /\ fn.name = "extract_crisis"
    /\ fn.pc = "cleaned"
    /\ fn' = [fn EXCEPT !.pc = "again",
                        !.again = [crisis_type |-> normalize_type(fn.cleaned.crisis_type),
                                   severity |-> normalize_severity(fn.cleaned.severity)]]
    /\ UNCHANGED hvars

NextNormalize == ApplyNormalize \/ ApplyNormalizeAgain

\* The normalisers, applied once and twice.
SpecNormalize == Init /\ [][NextNormalize]_vars

-----------------------------------------------------------------------------
\* generate_comprehensive_report: the event timeline of the audit report.
\* Events here carry their timestamp, which is the position they were
\* recorded at: the report shows it.

\* Number of events in the audit log when the report is generated.
MaxEvents == 3

ReportedTypes == {"CRISIS_RECEIVED", "APPROVAL_GRANTED", "UNIT_DISPATCHED"}

ReportedData == {[crisis_id |-> 1], [crisis_id |-> 2]}

\* record_event, outside the handlers
ReportRecordEvent ==
    /\ fn.name = "none"
    /\ Len(audit_log) < MaxEvents
    /\ \E event_type \in ReportedTypes, data \in ReportedData :
        audit_log' = Append(audit_log,
            [timestamp |-> Len(audit_log) + 1, event_type |-> event_type,
             data |-> data, sub |-> NoCall])
    /\ UNCHANGED <<pending_decisions, pending_decisions_lock, reports,
                   approval_calls, call, running, now, removed, fn>>

\* Variant of Put: the first value of a key is kept.
PutIfAbsent(timeline, event) ==
    timeline @@
        (event.event_type :> [timestamp |-> event.timestamp, data |-> event.data])

\* event_timeline[event_type] = {"timestamp": timestamp, "data": data}
Put(timeline, event) ==
    (event.event_type :> [timestamp |-> event.timestamp, data |-> event.data])
        @@ timeline

RECURSIVE TimelineFrom(_, _)
\* `for event in audit_events`, from an event on
TimelineFrom(audit_events, timeline) ==
    IF audit_events = <<>> THEN timeline
    ELSE TimelineFrom(Tail(audit_events), Put(timeline, Head(audit_events)))

\* generate_comprehensive_report: get_audit_log(), `if not audit_events:
\* return None`, the loop that fills event_timeline
GenerateReport ==
    /\ fn.name = "none"
    /\ fn' = IF audit_log = <<>>
             THEN [name |-> "generate_comprehensive_report", audit_events |-> <<>>,
                   event_timeline |-> EmptyDict, returned |-> "None"]
             ELSE [name |-> "generate_comprehensive_report", audit_events |-> audit_log,
                   event_timeline |-> TimelineFrom(audit_log, EmptyDict),
                   returned |-> "file_path"]
    /\ UNCHANGED hvars

NextReport == ReportRecordEvent \/ GenerateReport

\* The audit report, generated from the audit logs of up to MaxEvents events.
SpecReport == Init /\ [][NextReport]_vars

-----------------------------------------------------------------------------
\* services/audit.py called from threads: record_event and get_audit_log, one
\* statement at a time, and what a caller does to the list it got.
\*
\* The state of the threads is in fn: audit_lock is the thread that holds the
\* lock (NoThread: none), threads the program counter and locals of each
\* thread. A data dict is an object that several dicts can refer to: the data
\* of the event of thread t is fn.payload[t], and the entries of audit_log
\* and of the returned lists name it by t. recorded is history: the events as
\* they were when they were appended.

\* Number of threads.
MaxThreads == 3

Threads == 1..MaxThreads

NoThread == 0

IdleThread ==
    [pc |-> "idle", op |-> "none", event_record |-> EmptyDict, snapshot |-> <<>>,
     change |-> "none"]

\* the module is loaded: audit_log = [], audit_lock = threading.Lock()
AuditLoaded ==
    /\ fn.name = "none"
    /\ fn' = [name |-> "audit", audit_lock |-> NoThread,
              payload |-> [t \in Threads |-> EmptyDict],
              recorded |-> <<>>,
              threads |-> [t \in Threads |-> IdleThread]]
    /\ UNCHANGED hvars

InAudit(t, pc) == fn.name = "audit" /\ fn.threads[t].pc = pc

\* Variant of AuditLockFree: the lock is not waited for.
AuditLockIgnored == TRUE

\* `with audit_lock` can be entered
AuditLockFree == fn.audit_lock = NoThread

\* thread t calls record_event(event_type, data) with an event of its own
CallRecordEvent(t) ==
    /\ InAudit(t, "idle")
    /\ fn' = [fn EXCEPT !.threads[t].pc = "w_wait",
                        !.threads[t].op = "record_event",
                        !.payload[t] = [thread_id |-> t]]
    /\ UNCHANGED hvars

\* with audit_lock: event_record = {...}
RecordAcquire(t) ==
    /\ InAudit(t, "w_wait")
    /\ AuditLockFree
    /\ fn' = [fn EXCEPT !.audit_lock = t,
                        !.threads[t].pc = "w_locked",
                        !.threads[t].event_record =
                            [event_type |-> <<"CONCURRENT_EVENT", t>>, data |-> t]]
    /\ UNCHANGED hvars

\* audit_log.append(event_record)
RecordAppend(t) ==
    /\ InAudit(t, "w_locked")
    /\ audit_log' = Append(audit_log, fn.threads[t].event_record)
    /\ fn' = [fn EXCEPT !.threads[t].pc = "w_appended",
                        !.recorded = Append(@,
                            [event_type |-> fn.threads[t].event_record.event_type,
                             data |-> fn.payload[fn.threads[t].event_record.data]])]
    /\ UNCHANGED <<pending_decisions, pending_decisions_lock, reports,
                   approval_calls, call, running, now, removed>>

\* the end of the with block
RecordRelease(t) ==
    /\ InAudit(t, "w_appended")
    /\ fn' = [fn EXCEPT !.audit_lock = NoThread, !.threads[t].pc = "done"]
    /\ UNCHANGED hvars

\* thread t calls get_audit_log()
CallGetAuditLog(t) ==
    /\ InAudit(t, "idle")
    /\ fn' = [fn EXCEPT !.threads[t].pc = "g_wait",
                        !.threads[t].op = "get_audit_log"]
    /\ UNCHANGED hvars

\* with audit_lock
GetAcquire(t) ==
    /\ InAudit(t, "g_wait")
    /\ AuditLockFree
    /\ fn' = [fn EXCEPT !.audit_lock = t, !.threads[t].pc = "g_locked"]
    /\ UNCHANGED hvars

\* entry.copy(): a new dict with the values of entry; its data is the data
\* object of entry, not a copy of it
CopyEntry(entry) == [event_type |-> entry.event_type, data |-> entry.data]

\* [entry.copy() for entry in audit_log], and the return out of the with block
GetCopy(t) ==
    /\ InAudit(t, "g_locked")
    /\ fn' = [fn EXCEPT !.audit_lock = NoThread,
                        !.threads[t].pc = "returned",
                        !.threads[t].snapshot =
                            [i \in DOMAIN audit_log |-> CopyEntry(audit_log[i])]]
    /\ UNCHANGED hvars

\* The caller changes the list it got: it appends an entry,
CallerAppends(t) ==
    /\ InAudit(t, "returned")
    /\ fn' = [fn EXCEPT !.threads[t].pc = "changed",
                        !.threads[t].change = "append",
                        !.threads[t].snapshot =
                            Append(@, [event_type |-> "FAKE", data |-> t])]
    /\ UNCHANGED hvars

\* removes the first entry,
CallerRemoves(t) ==
    /\ InAudit(t, "returned")
    /\ fn.threads[t].snapshot # <<>>
    /\ fn' = [fn EXCEPT !.threads[t].pc = "changed",
                        !.threads[t].change = "remove",
                        !.threads[t].snapshot = Tail(@)]
    /\ UNCHANGED hvars

\* sets a field of the first entry: log[0]["event_type"] = ...,
CallerAltersEntry(t) ==
    /\ InAudit(t, "returned")
    /\ fn.threads[t].snapshot # <<>>
    /\ fn' = [fn EXCEPT !.threads[t].pc = "changed",
                        !.threads[t].change = "entry",
                        !.threads[t].snapshot[1].event_type = "ALTERED"]
    /\ UNCHANGED hvars

\* or sets a key of the data of the first entry: log[0]["data"]["thread_id"] = ...
CallerAltersData(t) ==
    /\ InAudit(t, "returned")
    /\ fn.threads[t].snapshot # <<>>
    /\ fn' = [fn EXCEPT !.threads[t].pc = "changed",
                        !.threads[t].change = "data",
                        !.payload[fn.threads[t].snapshot[1].data] =
                            [thread_id |-> NoThread]]
    /\ UNCHANGED hvars

NextAudit ==
    \/ AuditLoaded
    \/ \E t \in Threads :
        \/ CallRecordEvent(t)
        \/ RecordAcquire(t)
        \/ RecordAppend(t)
        \/ RecordRelease(t)
        \/ CallGetAuditLog(t)
        \/ GetAcquire(t)
        \/ GetCopy(t)
        \/ CallerAppends(t)
        \/ CallerRemoves(t)
        \/ CallerAltersEntry(t)
        \/ CallerAltersData(t)

\* The audit log and the threads that use it.
SpecAudit == Init /\ [][NextAudit]_vars

-----------------------------------------------------------------------------
\* The two locks: pending_decisions_lock of main.py and audit_lock of
\* services/audit.py, taken by calls that run in threads of their own, one
\* lock operation at a time. The state of the threads is in fn: the two
\* fields pending_lock and audit_lock name the thread that holds the lock, and
\* threads has the program counter, the operation and the crisis id of each
\* thread. A submit stores under the id of its thread.

WaitingThread(op, pc, crisis_id) == [op |-> op, pc |-> pc, crisis_id |-> crisis_id]

\* the module globals: both locks free
LocksLoaded ==
    /\ fn.name = "none"
    /\ fn' = [name |-> "locks", pending_lock |-> NoThread, audit_lock |-> NoThread,
              threads |-> [t \in Threads |-> WaitingThread("none", "idle", NoId)]]
    /\ UNCHANGED hvars

AtLock(t, pc) == fn.name = "locks" /\ fn.threads[t].pc = pc

\* a request or a thread begins: crisis_command at its with block, process
\* for a crisis id, a record_event of the notifier, or a get_audit_log
Begin(t) ==
    /\ AtLock(t, "idle")
    /\ \E begun \in { WaitingThread("crisis_command", "s_wait", t),
                       WaitingThread("record_event", "a_wait", NoId),
                       WaitingThread("get_audit_log", "g_wait", NoId) }
                       \cup { WaitingThread("process", "r_wait", id) : id \in Threads } :
        fn' = [fn EXCEPT !.threads[t] = begun]
    /\ UNCHANGED hvars

\* crisis_command: with pending_decisions_lock
StoreLock(t) ==
    /\ AtLock(t, "s_wait")
    /\ fn.pending_lock = NoThread
    /\ fn' = [fn EXCEPT !.pending_lock = t, !.threads[t].pc = "s_locked"]
    /\ UNCHANGED hvars

\* crisis_command: the entry is stored and the with block left
StoreUnlock(t) ==
    /\ AtLock(t, "s_locked")
    /\ pending_decisions' =
        (t :> [decision_output |-> EmptyDict, timestamp |-> now]) @@ pending_decisions
    /\ fn' = [fn EXCEPT !.pending_lock = NoThread, !.threads[t].pc = "done"]
    /\ UNCHANGED <<audit_log, pending_decisions_lock, reports, approval_calls,
                   call, running, now, removed>>

\* process: with pending_decisions_lock
ProcessLock(t) ==
    /\ AtLock(t, "r_wait")
    /\ fn.pending_lock = NoThread
    /\ fn' = [fn EXCEPT !.pending_lock = t, !.threads[t].pc = "r_locked"]
    /\ UNCHANGED hvars

\* process: crisis_id not in pending_decisions, the return leaves the with block
ProcessMiss(t) ==
    /\ AtLock(t, "r_locked")
    /\ fn.threads[t].crisis_id \notin DOMAIN pending_decisions
    /\ fn' = [fn EXCEPT !.pending_lock = NoThread, !.threads[t].pc = "done"]
    /\ UNCHANGED hvars

\* process, entry found: record_event of either branch reaches `with audit_lock`
ProcessFound(t) ==
    /\ AtLock(t, "r_locked")
    /\ fn.threads[t].crisis_id \in DOMAIN pending_decisions
    /\ fn' = [fn EXCEPT !.threads[t].pc = "r_event_wait"]
    /\ UNCHANGED hvars

\* record_event inside process: with audit_lock
ProcessEventLock(t) ==
    /\ AtLock(t, "r_event_wait")
    /\ fn.audit_lock = NoThread
    /\ fn' = [fn EXCEPT !.audit_lock = t, !.threads[t].pc = "r_event_locked"]
    /\ UNCHANGED hvars

\* record_event inside process: the append, and the with audit_lock block left
ProcessEventUnlock(t) ==
    /\ AtLock(t, "r_event_locked")
    /\ \E event_type \in {"APPROVAL_GRANTED", "APPROVAL_REJECTED"} :
        audit_log' = Append(audit_log,
            [event_type |-> event_type, data |-> [crisis_id |-> fn.threads[t].crisis_id],
             sub |-> fn.threads[t].crisis_id])
    /\ fn' = [fn EXCEPT !.audit_lock = NoThread, !.threads[t].pc = "r_recorded"]
    /\ UNCHANGED <<pending_decisions, pending_decisions_lock, reports,
                   approval_calls, call, running, now, removed>>

\* Variant of ReleasedOnRaise: the lock stays with the thread that raised.
HeldOnRaise(t) == t

\* an exception leaves `with pending_decisions_lock`: __exit__ releases the lock
ReleasedOnRaise(t) == NoThread

\* process: session.commit() raises after the event was recorded; the
\* exception leaves the with block, the entry stays
ProcessRaise(t) ==
    /\ AtLock(t, "r_recorded")
    /\ fn' = [fn EXCEPT !.pending_lock = ReleasedOnRaise(t), !.threads[t].pc = "done"]
    /\ UNCHANGED hvars

\* process: del pending_decisions[crisis_id], and the with block left
ProcessUnlock(t) ==
    /\ AtLock(t, "r_recorded")
    /\ pending_decisions' = Delete(pending_decisions, fn.threads[t].crisis_id)
    /\ fn' = [fn EXCEPT !.pending_lock = NoThread, !.threads[t].pc = "done"]
    /\ UNCHANGED <<audit_log, pending_decisions_lock, reports, approval_calls,
                   call, running, now, removed>>

\* record_event or get_audit_log of a thread outside the handlers: with audit_lock
AuditLock(t) ==
    /\ AtLock(t, "a_wait") \/ AtLock(t, "g_wait")
    /\ fn.audit_lock = NoThread
    /\ fn' = [fn EXCEPT !.audit_lock = t,
                        !.threads[t].pc =
                            IF fn.threads[t].pc = "a_wait" THEN "a_locked" ELSE "g_locked"]
    /\ UNCHANGED hvars

\* record_event: the append, and the with block left
AppendUnlock(t) ==
    /\ AtLock(t, "a_locked")
    /\ audit_log' = Append(audit_log,
            [event_type |-> "CALLING_FOR_HELP", data |-> EmptyDict, sub |-> NoCall])
    /\ fn' = [fn EXCEPT !.audit_lock = NoThread, !.threads[t].pc = "done"]
    /\ UNCHANGED <<pending_decisions, pending_decisions_lock, reports,
                   approval_calls, call, running, now, removed>>

\* get_audit_log: the copy, and the with block left
ReadUnlock(t) ==
    /\ AtLock(t, "g_locked")
    /\ fn' = [fn EXCEPT !.audit_lock = NoThread, !.threads[t].pc = "done"]
    /\ UNCHANGED hvars

\* a step of thread t
LockStep(t) ==
    \/ Begin(t)
    \/ StoreLock(t)
    \/ StoreUnlock(t)
    \/ ProcessLock(t)
    \/ ProcessMiss(t)
    \/ ProcessFound(t)
    \/ ProcessEventLock(t)
    \/ ProcessEventUnlock(t)
    \/ ProcessRaise(t)
    \/ ProcessUnlock(t)
    \/ AuditLock(t)
    \/ AppendUnlock(t)
    \/ ReadUnlock(t)

NextLocks == LocksLoaded \/ \E t \in Threads : LockStep(t)

\* The calls that take the locks, in threads that are each scheduled again
\* and again while they can take a step.
SpecLocks ==
    /\ Init
    /\ [][NextLocks]_vars
    /\ WF_vars(LocksLoaded)
    /\ \A t \in Threads : WF_vars(LockStep(t))

-----------------------------------------------------------------------------
\* Properties

\* the resolve calls made for crisis id
ResolveCalls(id) ==
    { r \in Calls : call[r].kind = "resolve" /\ call[r].crisis_id = id }

\* the positions in the audit log of the events of submission sub with a type
\* in types
EventIndexes(types, sub) ==
    { i \in DOMAIN audit_log :
        audit_log[i].event_type \in types /\ audit_log[i].sub = sub }

\* the positions of the approval events that name crisis id
ApprovalEvents(types, id) ==
    { i \in DOMAIN audit_log :
        /\ audit_log[i].event_type \in types
        /\ audit_log[i].data.crisis_id = id }

RECURSIVE TypesOf(_, _)
\* the event types of submission sub, in log order
TypesOf(log, sub) ==
    IF log = <<>> THEN <<>>
    ELSE IF Head(log).sub = sub
         THEN <<Head(log).event_type>> \o TypesOf(Tail(log), sub)
         ELSE TypesOf(Tail(log), sub)

\* submit call s has its allocation
Decided(s) ==
    /\ call[s].kind = "submit"
    /\ call[s].pc \notin {"idle", "s_resolve"}

\* the decisions allocated for submission s
DecisionsOf(s) == call[s].decision_output.decisions

\* submission s holds a decision of risk at least 4.0 and was not pre-approved
Gated(s) ==
    /\ Decided(s)
    /\ ~call[s].approved
    /\ \E i \in DOMAIN DecisionsOf(s) : DecisionsOf(s)[i].risk_score >= 40

\* ---- C1
\* C1: of the resolve calls made with the approval code '6' for one pending
\* crisis id, at most one takes the approved branch; that call runs
\* execute_dispatch and its entry is deleted, once; every other call that has
\* returned was answered "Crisis expired."; and when all the resolve calls for
\* the id carry '6' and one of them looked the entry up after it was stored,
\* exactly one took the approved branch.
C1_ExactlyOneApprovedResolve ==
    \A id \in CrisisIds :
        LET Sixes == { r \in ResolveCalls(id) : call[r].digit = "6" }
            Approved == { r \in Sixes : call[r].found }
            Returned == { r \in Sixes : call[r].pc = "done" }
        IN  /\ Cardinality(Approved) <= 1
            /\ removed[id] <= 1
            /\ \A r \in Returned \ Approved :
                    /\ call[r].response = [say |-> "Crisis expired."]
                    /\ call[r].execution_result = EmptyDict
            /\ \A r \in Returned \cap Approved :
                    /\ "execution_status" \in DOMAIN call[r].execution_result
                    /\ removed[id] = 1
                    /\ id \notin DOMAIN pending_decisions
            /\ ( /\ ResolveCalls(id) = Sixes
                 /\ \E r \in Returned : call[r].after_store )
                    => Cardinality(Approved) = 1

\* Two resolve calls with '6' for the same id have returned; they were in
\* flight together; one was approved, the other answered "Crisis expired.".
C1_Witness ==
    \E id \in CrisisIds : \E r1, r2 \in ResolveCalls(id) :
        /\ r1 # r2
        /\ call[r1].digit = "6" /\ call[r2].digit = "6"
        /\ call[r1].pc = "done" /\ call[r2].pc = "done"
        /\ call[r1].found
        /\ ~call[r2].found /\ call[r2].overlapped

\* ---- C2
\* C2: a resolve call with '6' for a pending entry whose submission allocated
\* k >= 1 decisions dispatches exactly those k decisions: k log entries, k
\* UNIT_DISPATCHED events and one DISPATCH_COMPLETED event, status COMPLETED.
C2_ApprovedResolveDispatchesAll ==
    \A r \in Calls :
        ( /\ call[r].kind = "resolve"
          /\ call[r].pc = "done"
          /\ call[r].found
          /\ call[r].digit = "6"
          /\ Len(DecisionsOf(call[r].crisis_id)) >= 1 )
        => LET id == call[r].crisis_id
               k == Len(DecisionsOf(id))
           IN  /\ call[r].execution_result.execution_status = "COMPLETED"
               /\ Len(call[r].execution_result.dispatch_log) = k
               /\ Cardinality(EventIndexes({"UNIT_DISPATCHED"}, id)) = k
               /\ Cardinality(EventIndexes({"DISPATCH_COMPLETED"}, id)) = 1

\* ---- C3
\* C3: a submission that holds a decision of risk score at least 4.0 and was
\* not pre-approved is not dispatched by its submit call, and every
\* UNIT_DISPATCHED or DISPATCH_COMPLETED event for it comes after an
\* APPROVAL_GRANTED event for its crisis id.
C3_DispatchOnlyAfterApproval ==
    /\ \A s \in Calls :
        Gated(s) => /\ call[s].dispatch_log = <<>>
                    /\ call[s].execution_result = EmptyDict
                    /\ call[s].pc \notin {"dispatch", "s_executed"}
    /\ \A i \in DOMAIN audit_log :
        ( /\ audit_log[i].event_type \in {"UNIT_DISPATCHED", "DISPATCH_COMPLETED"}
          /\ Gated(audit_log[i].sub) )
        => \E j \in 1..(i - 1) :
            /\ audit_log[j].event_type = "APPROVAL_GRANTED"
            /\ audit_log[j].data.crisis_id = call[audit_log[i].sub].crisis_id

\* A gated submission was stored, and a resolve call with '6' found it and ran
\* to its end.
C3_Witness ==
    \E s \in Calls :
        /\ Gated(s)
        /\ call[s].pc = "done"
        /\ \E r \in ResolveCalls(s) :
            call[r].pc = "done" /\ call[r].found /\ call[r].digit = "6"

\* ---- C4
\* C4: a resolve call that finds an entry older than 900 seconds is answered
\* as expired and dispatches nothing, whatever its digit: no approval is
\* granted, and the row does not become APPROVED.
C4_ExpiresAfterTimeout ==
    \A r \in Calls :
        ( /\ call[r].kind = "resolve"
          /\ call[r].found
          /\ call[r].elapsed > 900 )
        => /\ ApprovalEvents({"APPROVAL_GRANTED"}, call[r].crisis_id) = {}
           /\ call[r].pc \notin {"dispatch", "r_approved"}
           /\ call[r].pc = "done" =>
                /\ call[r].response = [say |-> "Crisis expired."]
                /\ reports[call[r].crisis_id].approval_status # "APPROVED"

\* ---- C5
\* C5: the fallback record is used only when the extractor failed or its
\* answer is malformed: of an answer that holds a record with crisis_type,
\* location and severity, the crisis keeps every field as extracted.
C5_WellFormedRecordIsKept ==
    \A c \in Calls :
        (call[c].kind = "submit" /\ call[c].pc # "idle")
        => \A i \in DOMAIN call[c].raw_outputs :
            LET record == call[c].raw_outputs[i].value IN
            {"crisis_type", "location", "severity"} \subseteq DOMAIN record
            => \A k \in DOMAIN record : call[c].crises[i][k] = record[k]

\* ---- C6
\* C6: every pending entry holds the allocation output of its submission, and
\* that output has at least one decision.
C6_EntryHoldsAllocation ==
    \A id \in DOMAIN pending_decisions :
        LET stored == pending_decisions[id].decision_output IN
        /\ Get(stored, "decisions", <<>>) # <<>>
        /\ Get(stored, "decisions", <<>>) = DecisionsOf(id)
        /\ Get(stored, "tradeoffs", <<>>) = call[id].decision_output.tradeoffs

\* ---- C7
\* C7: a submit call with at least one allocated decision that needs no
\* approval (no decision of risk 4.0 or more, or pre-approved) answers
\* EXECUTED with the result of the dispatcher, and leaves no pending entry.
C7_SubmitAnswersExecuted ==
    \A c \in Calls :
        ( /\ Decided(c)
          /\ call[c].pc = "done"
          /\ Len(DecisionsOf(c)) >= 1
          /\ ~Gated(c) )
        => /\ Get(call[c].response, "status", "") = "EXECUTED"
           /\ Get(call[c].response, "execution_result", EmptyDict)
                = call[c].execution_result
           /\ call[c].execution_result.execution_status = "COMPLETED"
           /\ c \notin DOMAIN pending_decisions

C9_EntryBeforeApprovalCall ==
    /\ \A id \in approval_calls :
        id \in DOMAIN pending_decisions \/ removed[id] > 0
    /\ \A id \in approval_calls : \A r \in ResolveCalls(id) :
        (call[r].pc = "done" /\ ~call[r].found) => call[r].after_store

\* ---- C10
\* C10: a pending crisis is resolved at most once. At most one
\* APPROVAL_GRANTED or APPROVAL_REJECTED event names a crisis id; the entry of
\* an id is deleted at most once; a row is APPROVED (REJECTED) only with its
\* one granted (rejected) event in the log and its entry deleted.
C10_ResolvedAtMostOnce ==
    \A id \in CrisisIds :
        LET granted == ApprovalEvents({"APPROVAL_GRANTED"}, id)
            rejected == ApprovalEvents({"APPROVAL_REJECTED"}, id)
        IN  /\ Cardinality(granted \cup rejected) <= 1
            /\ removed[id] <= 1
            /\ removed[id] = 1 =>
                /\ id \in DOMAIN reports
                /\ id \notin DOMAIN pending_decisions
                /\ reports[id].approval_status \in {"APPROVED", "REJECTED"}
            /\ id \in DOMAIN reports =>
                /\ reports[id].approval_status \in {"PENDING", "APPROVED", "REJECTED"}
                /\ reports[id].approval_status = "PENDING" => removed[id] = 0
                /\ reports[id].approval_status = "APPROVED" =>
                        Cardinality(granted) = 1 /\ removed[id] = 1
                /\ reports[id].approval_status = "REJECTED" =>
                        Cardinality(rejected) = 1 /\ removed[id] = 1

\* The status of a row changes only from PENDING, to APPROVED or REJECTED, and
\* in the step that deletes the entry; rows are never removed.
C10_StatusStep ==
    \A id \in DOMAIN reports :
        /\ id \in DOMAIN reports'
        /\ reports'[id].approval_status # reports[id].approval_status
            => /\ reports[id].approval_status = "PENDING"
               /\ reports'[id].approval_status \in {"APPROVED", "REJECTED"}
               /\ removed'[id] = removed[id] + 1

\* C10: the crisis leaves its waiting state exactly once: the invariant of
\* C10_ResolvedAtMostOnce holds in every state, and every step that changes a
\* row's status changes it once, from PENDING to APPROVED or REJECTED, and
\* deletes the entry.
C10_LeavesWaitingOnce ==
    []C10_ResolvedAtMostOnce /\ [][C10_StatusStep]_vars

\* A crisis was rejected, and a later resolve call for it, made with '6', was
\* answered "Crisis expired.".
C10_Witness ==
    \E id \in DOMAIN reports :
        /\ reports[id].approval_status = "REJECTED"
        /\ removed[id] = 1
        /\ \E r \in ResolveCalls(id) :
            /\ call[r].pc = "done" /\ ~call[r].found /\ call[r].after_store
            /\ call[r].digit = "6"

\* ---- C11
\* C11: a resolve call that finds its entry and carries any code but '6' (no
\* digit included) is a rejection: one APPROVAL_REJECTED event and no
\* APPROVAL_GRANTED event names the id, the call runs neither the dispatcher
\* nor the notifier and no dispatch event is appended, and when it has
\* returned it answered "Rejected.", the row is REJECTED and the entry is
\* deleted.
C11_OtherCodeRejects ==
    \A r \in Calls :
        ( /\ call[r].kind = "resolve"
          /\ call[r].found
          /\ call[r].digit # "6" )
        => LET id == call[r].crisis_id IN
           /\ Cardinality(ApprovalEvents({"APPROVAL_REJECTED"}, id)) = 1
           /\ ApprovalEvents({"APPROVAL_GRANTED"}, id) = {}
           /\ call[r].pc \in {"r_rejected", "done"}
           /\ call[r].dispatch_log = <<>>
           /\ call[r].execution_result = EmptyDict
           /\ ~call[r].notifier_started
           /\ EventIndexes({"UNIT_DISPATCHED", "DISPATCH_COMPLETED",
                            "DISPATCH_SKIPPED"}, id) = {}
           /\ call[r].pc = "done" =>
                /\ call[r].response = [say |-> "Rejected."]
                /\ reports[id].approval_status = "REJECTED"
                /\ id \notin DOMAIN pending_decisions
                /\ removed[id] = 1

\* A resolve call without a digit found its entry and has returned.
C11_Witness ==
    \E r \in Calls :
        /\ call[r].kind = "resolve"
        /\ call[r].found
        /\ call[r].digit = "none"
        /\ call[r].pc = "done"

\* ---- C12
\* a step in which resolve call c returns without having found its entry
NotFoundStep(c) ==
    /\ call[c].kind = "resolve"
    /\ call[c].pc = "r_lock"
    /\ call'[c].pc = "done"
    /\ ~call'[c].found

\* C12: a resolve call for an id that is not in the pending map answers
\* "Crisis expired.", leaves the lock free, and leaves the pending map, the
\* audit log and every row of the reports unchanged.
C12_NotFoundChangesNothing ==
    [][\A c \in Calls :
        NotFoundStep(c) =>
            /\ call'[c].response = [say |-> "Crisis expired."]
            /\ pending_decisions_lock' = NoCall
            /\ pending_decisions' = pending_decisions
            /\ audit_log' = audit_log
            /\ reports' = reports
            /\ removed' = removed]_vars

\* A resolve call has returned without finding an entry for its id, while
\* the entry of another id is pending and the audit log holds events.
C12_Witness ==
    \E r \in Calls :
        /\ call[r].kind = "resolve"
        /\ call[r].pc = "done"
        /\ call[r].crisis_id # NoId
        /\ ~call[r].found
        /\ DOMAIN pending_decisions # {}
        /\ audit_log # <<>>

\* ---- C13
\* the extraction behind raw_output failed
Failed(raw_output) == raw_output = DictFailed

\* raw_output is text without a JSON object in it
Malformed(raw_output) ==
    /\ raw_output.kind = "str"
    /\ ~(raw_output.has_object /\ raw_output.valid)

C14_AllocationConserves ==
    fn.name = "resolve_conflicts" =>
        LET remaining == fn.heap[fn.remaining_resources] IN
        /\ \A t \in DOMAIN remaining : remaining[t] >= 0
        /\ Len(fn.decisions) + Len(fn.tradeoffs) = fn.i - 1
        /\ fn.pc = "returned" =>
            /\ Len(fn.result.decisions) + Len(fn.result.tradeoffs)
                    = Len(fn.crisis_list)
            /\ \A t \in DOMAIN fn.result.remaining_resources :
                    fn.result.remaining_resources[t] >= 0

\* resolve_conflicts has returned for three crises; a pool entry was used up,
\* one crisis at least was allocated and one at least delayed.
C14_Witness ==
    /\ fn.name = "resolve_conflicts"
    /\ fn.pc = "returned"
    /\ Len(fn.crisis_list) = 3
    /\ fn.result.decisions # <<>>
    /\ fn.result.tradeoffs # <<>>
    /\ \E t \in DOMAIN fn.configured :
        fn.configured[t] > 0 /\ fn.result.remaining_resources[t] = 0

\* ---- C15
\* crisis a is handled before crisis b: higher risk score first, and of two
\* crises of equal score the one that is earlier in the input list
Before(a, b) ==
    \/ a.risk_score > b.risk_score
    \/ a.risk_score = b.risk_score /\ a.n < b.n

InOrder(seq) ==
    \A j, k \in DOMAIN seq : j < k => Before(seq[j], seq[k])

\* the input positions of the crises of seq
PositionsOf(seq) == { seq[j].n : j \in DOMAIN seq }

\* C15: resolve_conflicts handles the crises of its input in descending order
\* of risk_score, crises of equal score in input order; decisions and
\* tradeoffs each list their crises in the order they were handled.
C15_DescendingStableOrder ==
    fn.name = "resolve_conflicts" =>
        /\ Len(fn.sorted_crises) = Len(fn.crisis_list)
        /\ PositionsOf(fn.sorted_crises) = DOMAIN fn.crisis_list
        /\ \A j \in DOMAIN fn.sorted_crises :
                fn.sorted_crises[j] = fn.crisis_list[fn.sorted_crises[j].n]
        /\ InOrder(fn.sorted_crises)
        /\ InOrder(fn.decisions)
        /\ InOrder(fn.tradeoffs)
        /\ PositionsOf(fn.decisions) \cup PositionsOf(fn.tradeoffs)
                = PositionsOf(SubSeq(fn.sorted_crises, 1, fn.i - 1))

\* resolve_conflicts has returned for a list in which the last crisis has a
\* higher score than the first, and the first two have equal scores and were
\* both allocated.
C15_Witness ==
    /\ fn.name = "resolve_conflicts"
    /\ fn.pc = "returned"
    /\ Len(fn.crisis_list) = 3
    /\ fn.crisis_list[1].risk_score = fn.crisis_list[2].risk_score
    /\ fn.crisis_list[3].risk_score > fn.crisis_list[1].risk_score
    /\ {1, 2} \subseteq PositionsOf(fn.result.decisions)

\* ---- C16
\* crisis.get("crisis_type"), as it is tested against the pool
TypeOf(crisis) == Get(crisis, "crisis_type", "None")

\* the positions in seq of the crises of type t
OfType(seq, t) == { j \in DOMAIN seq : TypeOf(seq[j]) = t }

Min(a, b) == IF a <= b THEN a ELSE b

\* C16: in the result of resolve_conflicts, for each type t: the number of
\* allocated crises of type t is min(pool[t], number of input crises of type
\* t), a type without a pool entry counting as capacity 0; remaining[t] is
\* pool[t] less that number; and no delayed crisis of type t has a higher
\* risk_score than an allocated crisis of type t.
C16_PriorityUnderScarcity ==
    (fn.name = "resolve_conflicts" /\ fn.pc = "returned") =>
        \A t \in DOMAIN fn.configured \cup { TypeOf(fn.crisis_list[j]) : j \in DOMAIN fn.crisis_list } :
            LET capacity == IF t \in DOMAIN fn.configured THEN fn.configured[t] ELSE 0
                wanted == Cardinality(OfType(fn.crisis_list, t))
                allocated == OfType(fn.result.decisions, t)
                delayed == OfType(fn.result.tradeoffs, t)
            IN  /\ Cardinality(allocated) = Min(capacity, wanted)
                /\ t \in DOMAIN fn.configured =>
                    fn.result.remaining_resources[t] = capacity - Cardinality(allocated)
                /\ \A a \in allocated : fn.result.decisions[a].status = "allocated"
                /\ \A d \in delayed : fn.result.tradeoffs[d].status = "delayed"
                /\ \A a \in allocated, d \in delayed :
                    fn.result.tradeoffs[d].risk_score <= fn.result.decisions[a].risk_score

\* Two crises of one type competed for one unit: the one later in the input
\* has the higher score and was allocated, the earlier one was delayed.
C16_Witness ==
    /\ fn.name = "resolve_conflicts"
    /\ fn.pc = "returned"
    /\ \E a \in DOMAIN fn.result.decisions, d \in DOMAIN fn.result.tradeoffs :
        /\ TypeOf(fn.result.decisions[a]) = TypeOf(fn.result.tradeoffs[d])
        /\ TypeOf(fn.result.decisions[a]) \in DOMAIN fn.configured
        /\ fn.result.decisions[a].risk_score > fn.result.tradeoffs[d].risk_score
        /\ fn.result.decisions[a].n > fn.result.tradeoffs[d].n

\* ---- C17
\* C17: resolve_conflicts decrements a copy: at every step of every call the
\* dict passed as `resources`, which is the resource_pool of the engine, has
\* the capacities the engine was configured with, and each call allocates
\* against those capacities, whatever the calls before it allocated.
C17_PoolIsNotConsumed ==
    fn.name = "resolve_conflicts" =>
        /\ fn.heap[fn.resources] = fn.configured
        /\ fn.heap[PoolRef] = fn.configured
        /\ (fn.pc = "loop" /\ fn.i = 1) =>
                fn.heap[fn.remaining_resources] = fn.configured
        /\ fn.pc = "returned" =>
            \A t \in DOMAIN fn.configured :
                fn.result.remaining_resources[t]
                    + Cardinality(OfType(fn.result.decisions, t))
                    = fn.configured[t]

\* The second call on an engine with one Fire unit has returned; the call
\* before it allocated that unit, and so did this one.
C17_Witness ==
    /\ fn.name = "resolve_conflicts"
    /\ fn.pc = "returned"
    /\ fn.runs = 2
    /\ fn.configured = ScarcePool
    /\ fn.earlier = 1
    /\ Len(fn.result.decisions) = 1

\* ---- C18
\* C18: a crisis whose type has no entry in the pool is put into tradeoffs,
\* with status delayed and a reason that names its type, and not into
\* decisions; resolve_conflicts goes on with its loop; the remaining pool has
\* the keys of the pool it was given, no more.
C18_UnknownTypeIsDelayed ==
    fn.name = "resolve_conflicts" =>
        /\ DOMAIN fn.heap[fn.remaining_resources] = DOMAIN fn.configured
        /\ fn.pc = "loop" => ENABLED (ResolverStep \/ ResolverReturn)
        /\ \A j \in 1..(fn.i - 1) :
            LET crisis == fn.sorted_crises[j] IN
            TypeOf(crisis) \notin DOMAIN fn.configured =>
                /\ crisis.n \notin PositionsOf(fn.decisions)
                /\ \E k \in DOMAIN fn.tradeoffs :
                    /\ fn.tradeoffs[k].n = crisis.n
                    /\ fn.tradeoffs[k].status = "delayed"
                    /\ fn.tradeoffs[k].reason =
                            <<"No resources available for", TypeOf(crisis)>>
        /\ fn.pc = "returned" =>
                DOMAIN fn.result.remaining_resources = DOMAIN fn.configured

\* resolve_conflicts has returned; a Volcano crisis, for which the pool has no
\* entry, was delayed, and a crisis of lower score handled after it was
\* allocated.
C18_Witness ==
    /\ fn.name = "resolve_conflicts"
    /\ fn.pc = "returned"
    /\ \E k \in DOMAIN fn.result.tradeoffs, a \in DOMAIN fn.result.decisions :
        /\ TypeOf(fn.result.tradeoffs[k]) = "Volcano"
        /\ fn.result.tradeoffs[k].risk_score > fn.result.decisions[a].risk_score

\* ---- C19
\* the risk factor of the crisis is empty
NoRiskFactor(crisis) == Get(crisis, "risk_factor", "") = ""

\* C19 as stated: with an empty risk factor the score is severityBase +
\* typeWeight, with bases Low 1, Medium 2, High 3, Critical 4 and weights Fire
\* 1, Flood 0, Gas Leak 1, Accident 0, Earthquake 2, the lowest base (1) or
\* weight (0) for an unrecognised severity or type; a High Fire scores 4.0.
C19_ScoreByRank ==
    (fn.name = "calculate_risk" /\ NoRiskFactor(fn.crisis)) =>
        LET severity == Lower(Get(fn.crisis, "severity", ""))
            crisis_type == Lower(Get(fn.crisis, "crisis_type", ""))
            base == CASE severity = "low" -> 10
                      [] severity = "medium" -> 20
                      [] severity = "high" -> 30
                      [] severity = "critical" -> 40
                      [] OTHER -> 10
            weight == CASE crisis_type \in {"fire", "gas leak"} -> 10
                        [] crisis_type = "earthquake" -> 20
                        [] OTHER -> 0
        IN  fn.risk_score = base + weight

\* C19, amended: with an empty risk factor the score is severityBase +
\* typeWeight, severity and type compared in lower case, with bases low 1.0,
\* medium and moderate 3.0, high, major, severe and critical 5.0, and 2.0 for
\* any other severity, and weights fire, industrial accident and gas leak
\* 1.0, earthquake 2.0, and 0 for any other type; a High Fire scores 6.0.
C19_ScoreBySeverityAndType ==
    (fn.name = "calculate_risk" /\ NoRiskFactor(fn.crisis)) =>
        LET severity == Lower(Get(fn.crisis, "severity", ""))
            crisis_type == Lower(Get(fn.crisis, "crisis_type", ""))
            base == CASE severity = "low" -> 10
                      [] severity \in {"medium", "moderate"} -> 30
                      [] severity \in {"high", "major", "severe", "critical"} -> 50
                      [] OTHER -> 20
            weight == CASE crisis_type \in {"fire", "industrial accident", "gas leak"} -> 10
                        [] crisis_type = "earthquake" -> 20
                        [] OTHER -> 0
        IN  /\ fn.risk_score = base + weight
            /\ (severity = "high" /\ crisis_type = "fire") => fn.risk_score = 60

\* calculate_risk was applied to a High Fire without a risk factor.
C19_Witness ==
    /\ fn.name = "calculate_risk"
    /\ fn.crisis = [severity |-> "High", crisis_type |-> "Fire"]
    /\ fn.risk_score = 60

\* ---- C20
\* the score of the crisis of fn less its severity base and type weight
KeywordPart ==
    fn.risk_score
        - SeverityScore(Lower(Get(fn.crisis, "severity", "")))
        - TypeWeight(Lower(Get(fn.crisis, "crisis_type", "")))

\* C20 as stated: every occurrence of a danger keyword in the risk factor,
\* found as a substring whatever its case, adds 1.5: k occurrences add 1.5*k.
C20_ScorePerOccurrence ==
    fn.name = "calculate_risk" =>
        KeywordPart = 15 * KeywordOccurrences(Lower(Get(fn.crisis, "risk_factor", "")))

\* C20, amended: every danger keyword that occurs in the risk factor, found
\* as a substring whatever its case, adds 1.5 once, however often it occurs:
\* a risk factor in which k of the eight keywords occur adds 1.5*k.
C20_ScorePerKeyword ==
    fn.name = "calculate_risk" =>
        LET found == KeywordsIn(Lower(Get(fn.crisis, "risk_factor", "")))
                        \cap {"fuel", "chemical", "refinery", "radiation",
                              "explosion", "casualties", "toxic", "nuclear"}
        IN  /\ KeywordPart = 15 * Cardinality(found)
            /\ Get(fn.crisis, "risk_factor", "") = "Toxic CHEMICAL smoke"
                    => KeywordPart = 30
            /\ Get(fn.crisis, "risk_factor", "") = "refuelling station"
                    => KeywordPart = 15

\* calculate_risk was applied to a risk factor in which one keyword occurs
\* twice, and 1.5 was added.
C20_Witness ==
    /\ fn.name = "calculate_risk"
    /\ Get(fn.crisis, "risk_factor", "") = "fuel leak near fuel tanks"
    /\ KeywordPart = 15

\* ---- C21
\* log is the beginning of later
IsPrefix(log, later) ==
    /\ Len(log) <= Len(later)
    /\ SubSeq(later, 1, Len(log)) = log

\* C21: the audit log is append-only. In every step of the handlers the log
\* before the step is a prefix of the log after it, and the step adds at most
\* one event, at the end: no event is removed, moved or altered, and the
\* length never decreases.
C21_AuditLogAppendOnly ==
    [][/\ IsPrefix(audit_log, audit_log')
       /\ Len(audit_log') <= Len(audit_log) + 1]_vars

\* The log holds the events of two submissions and of an approval.
C21_Witness ==
    /\ Len(audit_log) >= 7
    /\ \E i, j, k \in DOMAIN audit_log :
        /\ i < j /\ j < k
        /\ audit_log[i].sub # audit_log[j].sub
        /\ audit_log[k].event_type = "APPROVAL_GRANTED"

\* ---- C22
\* The threads whose record_event has appended its event.
Appended == { t \in Threads : fn.threads[t].pc \in {"w_appended", "done"} }

\* The threads inside a `with audit_lock` block.
InCriticalSection == { t \in Threads : fn.threads[t].pc \in {"w_locked", "w_appended", "g_locked"} }

\* An entry as one record_event call wrote it: both keys, type and data of
\* the same call.
WholeEvent(entry) ==
    /\ DOMAIN entry = {"event_type", "data"}
    /\ \E t \in Threads : entry.event_type = <<"CONCURRENT_EVENT", t>> /\ entry.data = t

\* C22: concurrent record_event calls add one event each to the audit log:
\* the event of a call is in the log exactly once after its append and not
\* before, the log holds nothing else, every entry is the whole event of one
\* call, and a list that get_audit_log returned is a beginning of the log
\* made of whole events. At most one thread is inside the critical section,
\* and it is the one that holds audit_lock.
C22_ConcurrentEventsRecordedOnce ==
    fn.name = "audit" =>
        /\ \A t \in Threads :
            Cardinality({ i \in DOMAIN audit_log :
                            audit_log[i].event_type = <<"CONCURRENT_EVENT", t>> })
                = IF t \in Appended THEN 1 ELSE 0
        /\ Len(audit_log) = Cardinality(Appended)
        /\ \A i \in DOMAIN audit_log : WholeEvent(audit_log[i])
        /\ \A t \in Threads : fn.threads[t].pc = "returned" =>
            /\ IsPrefix(fn.threads[t].snapshot, audit_log)
            /\ \A i \in DOMAIN fn.threads[t].snapshot : WholeEvent(fn.threads[t].snapshot[i])
        /\ Cardinality(InCriticalSection) <= 1
        /\ \A t \in Threads : t \in InCriticalSection <=> fn.audit_lock = t

\* Two calls have recorded their events and a get_audit_log that ran between
\* the two appends has returned the first.
C22_Witness ==
    /\ fn.name = "audit"
    /\ Cardinality({ t \in Threads : fn.threads[t].pc = "done" }) = 2
    /\ \E t \in Threads :
        /\ fn.threads[t].pc = "returned"
        /\ Len(fn.threads[t].snapshot) = 1

\* ---- C23
\* The events of a list with the data they refer to.
WithData(log) ==
    [i \in DOMAIN log |-> [event_type |-> log[i].event_type, data |-> fn.payload[log[i].data]]]

\* C23: what get_audit_log returns is what record_event recorded, whatever
\* the callers of get_audit_log did to the lists they got.
C23_ReturnedLogIsIsolated ==
    fn.name = "audit" => WithData(audit_log) = fn.recorded

\* ---- C24
\* The place of an event type in the course of a submission; 0 for the types
\* the order says nothing about.
Stage(event_type) ==
    CASE event_type = "CRISIS_RECEIVED" -> 1
      [] event_type = "DECISION_MADE" -> 2
      [] event_type \in {"AUTHORIZATION_REQUIRED", "APPROVAL_CALL_TRIGGERED",
                         "APPROVAL_GRANTED"} -> 3
      [] event_type \in {"UNIT_DISPATCHED", "DISPATCH_COMPLETED"} -> 4
      [] OTHER -> 0

\* C24: in the audit log, the events of one submission are in the order
\* CRISIS_RECEIVED, DECISION_MADE, authorization events (AUTHORIZATION_REQUIRED,
\* APPROVAL_CALL_TRIGGERED, APPROVAL_GRANTED), dispatch events (UNIT_DISPATCHED,
\* DISPATCH_COMPLETED): no event of a later stage is before one of an earlier
\* stage, every event after CRISIS_RECEIVED has the CRISIS_RECEIVED of its
\* submission before it, and every authorization or dispatch event its
\* DECISION_MADE.
C24_EventsInOrder ==
    \A i \in DOMAIN audit_log :
        LET e == audit_log[i] IN
        Stage(e.event_type) > 0 =>
            /\ \A j \in 1..(i - 1) :
                (audit_log[j].sub = e.sub /\ Stage(audit_log[j].event_type) > 0)
                    => Stage(audit_log[j].event_type) <= Stage(e.event_type)
            /\ Stage(e.event_type) > 1 =>
                \E j \in 1..(i - 1) :
                    audit_log[j].sub = e.sub /\ audit_log[j].event_type = "CRISIS_RECEIVED"
            /\ Stage(e.event_type) > 2 =>
                \E j \in 1..(i - 1) :
                    audit_log[j].sub = e.sub /\ audit_log[j].event_type = "DECISION_MADE"

\* The events of a submission that was dispatched at once are in the log
\* after the first events of one that waits for approval, which was then
\* approved.
C24_Witness ==
    \E s, u \in Calls :
        /\ s # u
        /\ TypesOf(audit_log, s) =
            <<"CRISIS_RECEIVED", "DECISION_MADE", "AUTHORIZATION_REQUIRED",
              "APPROVAL_CALL_TRIGGERED", "APPROVAL_GRANTED">>
        /\ EventIndexes({"UNIT_DISPATCHED"}, u) # {}
        /\ EventIndexes({"DISPATCH_COMPLETED"}, u) # {}
        /\ \E i \in EventIndexes({"CRISIS_RECEIVED"}, u),
              j \in EventIndexes({"APPROVAL_GRANTED"}, s),
              k \in EventIndexes({"APPROVAL_CALL_TRIGGERED"}, s) : k < i /\ i < j

\* ---- C25
RECURSIVE DispatchEventsOf(_, _)
\* the UNIT_DISPATCHED and DISPATCH_COMPLETED events of submission sub, in log
\* order, without the submission tag
DispatchEventsOf(log, sub) ==
    IF log = <<>> THEN <<>>
    ELSE IF Head(log).sub = sub
            /\ Head(log).event_type \in {"UNIT_DISPATCHED", "DISPATCH_COMPLETED"}
         THEN <<[event_type |-> Head(log).event_type, data |-> Head(log).data]>>
                \o DispatchEventsOf(Tail(log), sub)
         ELSE DispatchEventsOf(Tail(log), sub)

\* execute_dispatch has returned to call c
Dispatched(c) == call[c].execution_result # <<>>

\* C25: when execute_dispatch has returned for a decision set with k >= 1
\* decisions, its result is COMPLETED with k log entries in decision order,
\* each Dispatched with the type, location and risk score of its decision,
\* and the dispatch events of the submission are k UNIT_DISPATCHED events in
\* that order and then one DISPATCH_COMPLETED event with total_units k and the
\* remaining pool of the decision set.
C25_DispatchOfEveryDecision ==
    \A c \in Calls :
        LET decisions == Get(call[c].decision_output, "decisions", <<>>)
            k == Len(decisions)
        IN
        (Dispatched(c) /\ k >= 1) =>
            /\ call[c].execution_result.execution_status = "COMPLETED"
            /\ call[c].execution_result.dispatch_log =
                [i \in 1..k |->
                    [unit_type |-> decisions[i].crisis_type,
                     destination |-> decisions[i].location,
                     status |-> "Dispatched",
                     risk_score |-> decisions[i].risk_score]]
            /\ DispatchEventsOf(audit_log, SubmissionOf(c)) =
                [i \in 1..k |->
                    [event_type |-> "UNIT_DISPATCHED",
                     data |-> [unit_type |-> decisions[i].crisis_type,
                               destination |-> decisions[i].location,
                               risk_score |-> decisions[i].risk_score]]]
                \o <<[event_type |-> "DISPATCH_COMPLETED",
                      data |-> [total_units |-> k,
                                remaining_resources |->
                                    call[c].decision_output.remaining_resources]]>>

\* execute_dispatch has returned for a decision set with two decisions.
C25_Witness ==
    \E c \in Calls :
        /\ Dispatched(c)
        /\ Len(Get(call[c].decision_output, "decisions", <<>>)) = 2
        /\ call[c].execution_result.execution_status = "COMPLETED"

\* ---- C26
\* execute_dispatch returns to call c in this step, with nothing to dispatch
ReturnsWithNothing(c) ==
    /\ ~Dispatched(c)
    /\ call'[c].execution_result # <<>>
    /\ Get(call[c].decision_output, "decisions", <<>>) = <<>>

SkippedEvent(c) ==
    [event_type |-> "DISPATCH_SKIPPED", data |-> [reason |-> "No allocated decisions"],
     sub |-> SubmissionOf(c)]

\* C26 as stated: when execute_dispatch returns with nothing to dispatch, the
\* result is NO_ACTION with an empty log and the call has appended one
\* DISPATCH_SKIPPED event and nothing else.
C26_NothingToDispatchIsSkipped ==
    [][\A c \in Calls : ReturnsWithNothing(c) =>
            /\ call'[c].execution_result = NoAction
            /\ audit_log' = Append(audit_log, SkippedEvent(c))]_vars

\* C26, amended: when execute_dispatch returns with nothing to dispatch, the
\* result is NO_ACTION with an empty log and no UNIT_DISPATCHED or
\* DISPATCH_COMPLETED event is appended; for a decision set with an empty
\* decisions list one DISPATCH_SKIPPED event is appended, for an empty decision
\* set no event at all.
C26_SkippedEventOnlyForEmptyList ==
    [][\A c \in Calls : ReturnsWithNothing(c) =>
            /\ call'[c].execution_result = NoAction
            /\ audit_log' = IF call[c].decision_output = EmptyDict
                             THEN audit_log
                             ELSE Append(audit_log, SkippedEvent(c))]_vars

\* execute_dispatch has returned NO_ACTION twice: for the empty decision set
\* of an approved crisis, without an event, and for the empty decisions list
\* of a submission, with DISPATCH_SKIPPED.
C26_Witness ==
    \E c, r \in Calls :
        /\ call[r].kind = "resolve"
        /\ call[r].decision_output = EmptyDict
        /\ call[r].execution_result = NoAction
        /\ EventIndexes({"DISPATCH_SKIPPED"}, call[r].crisis_id) = {}
        /\ call[c].kind = "submit"
        /\ call[c].execution_result = NoAction
        /\ call[c].decision_output # EmptyDict
        /\ Cardinality(EventIndexes({"DISPATCH_SKIPPED"}, c)) = 1

\* ---- C27
\* C27: when an approval is granted for a submission with allocated
\* decisions, the notifier is started.
C27_ApprovalStartsNotifier ==
    \A r \in Calls :
        ( /\ call[r].kind = "resolve"
          /\ call[r].pc = "done"
          /\ call[r].found
          /\ IsApproval(call[r].digit)
          /\ Len(DecisionsOf(call[r].crisis_id)) >= 1 )
        => call[r].notifier_started

\* ---- C28
\* C28: every call that has returned has answered with a status of its
\* handler, whatever failed: no call ends with an error.
C28_NoFailureEscapes ==
    \A c \in Calls :
        call[c].pc = "done" => call[c].response # ServerError

\* ---- C29
\* submit call c got its call reference from the except clause
CallFailed(c) == call[c].call_sid = "SIM"

\* C29: a submit call whose approval call failed has a local SIM- reference
\* and no call placed; when it has returned, its entry was inserted under its
\* id (it is in the map, or a resolve call has deleted it since), it is the
\* only call with that id, and its answer is CALL_TRIGGERED with the high-risk
\* decisions, that id and the SIM- reference.
C29_FailedCallStillStores ==
    \A c \in Calls :
        CallFailed(c) =>
            /\ c \notin approval_calls
            /\ call[c].crisis_id # NoId
            /\ \A b \in Calls :
                (call[b].kind = "submit" /\ call[b].crisis_id = call[c].crisis_id) => b = c
            /\ call[c].pc = "s_store" =>
                /\ call[c].crisis_id \notin DOMAIN pending_decisions
                /\ removed[call[c].crisis_id] = 0
            /\ call[c].pc = "done" =>
                /\ \/ call[c].crisis_id \in DOMAIN pending_decisions
                   \/ removed[call[c].crisis_id] > 0
                /\ call[c].response =
                    [status |-> "CALL_TRIGGERED",
                     details |-> SelectHighRisk(DecisionsOf(c)),
                     crisis_id |-> call[c].crisis_id,
                     call_sid |-> "SIM"]

\* A submit call whose approval call failed has returned and its entry is in
\* the map.
C29_Witness ==
    \E c \in Calls :
        /\ CallFailed(c)
        /\ call[c].pc = "done"
        /\ call[c].crisis_id \in DOMAIN pending_decisions

\* ---- C30
\* the submit calls that have stored their entry
Stored == { s \in Calls : call[s].kind = "submit" /\ call[s].pc = "done"
                            /\ call[s].crisis_id # NoId }

InResolution(c) ==
    /\ call[c].kind = "resolve"
    /\ call[c].pc \in {"dispatch", "r_approved", "r_rejected"}

Answered(c) ==
    /\ call[c].kind = "submit"
    /\ call[c].pc = "done"
    /\ Get(call[c].response, "status", "") = "CALL_TRIGGERED"

ResolvedNow(id) ==
    \E c \in Calls :
        /\ InResolution(c)
        /\ call[c].pc \in {"r_approved", "r_rejected"}
        /\ call[c].crisis_id = id
        /\ call'[c].pc = "done"

\* C33: a pending entry is removed only by a resolve call for its own id:
\* every other step of a submit or resolve call leaves each entry in the map
\* as it is.
C33_EntryLeavesOnlyByItsResolve ==
    [][\A id \in DOMAIN pending_decisions :
            \/ /\ id \in DOMAIN pending_decisions'
               /\ pending_decisions'[id] = pending_decisions[id]
            \/ ResolvedNow(id)]_vars

\* An entry is still in the map after a later submission stored its own and
\* a resolve call for that other id deleted it.
C33_Witness ==
    \E s, u, r \in Calls :
        /\ s < u
        /\ s \in Stored /\ u \in Stored
        /\ call[s].crisis_id \in DOMAIN pending_decisions
        /\ call[r].kind = "resolve" /\ call[r].pc = "done" /\ call[r].found
        /\ call[r].crisis_id = call[u].crisis_id
        /\ removed[call[u].crisis_id] = 1

\* ---- C34
\* the normalisers have been applied to what they returned
NormalizedTwice == fn.name = "extract_crisis" /\ fn.pc = "again"

\* every character of str has a title case of one character
SingleTitle(str) == \A i \in DOMAIN str : Len(TitleChar(str[i])) = 1

\* C34 as stated: normalising the normalised type gives the normalised type,
\* and the same for the severity, for every raw string.
C34_NormalizationIdempotent ==
    NormalizedTwice => fn.again = fn.cleaned

\* C34, amended: normalising the normalised severity gives the normalised
\* severity, for every raw severity; normalising the normalised type gives
\* the normalised type for every raw type whose characters have a title case
\* of one character each.
C34_IdempotentOnPlainStrings ==
    NormalizedTwice =>
        /\ fn.again.severity = fn.cleaned.severity
        /\ SingleTitle(fn.data.crisis_type) => fn.again.crisis_type = fn.cleaned.crisis_type

\* A type that is no key of the mapping and a severity with two keywords
\* have been normalised twice.
C34_Witness ==
    /\ NormalizedTwice
    /\ fn.data.crisis_type = <<"b", "i", "g", " ", "f", "i", "r", "e">>
    /\ fn.cleaned.crisis_type = <<"B", "i", "g", " ", "F", "i", "r", "e">>
    /\ fn.data.severity = <<"h", "i", "g", "h", " ", "t", "o", " ", "c", "r", "i", "t", "i", "c", "a", "l">>
    /\ fn.cleaned.severity = <<"C", "r", "i", "t", "i", "c", "a", "l">>

\* ---- C35
\* a raw type has been normalised
Normalized == fn.name = "extract_crisis"

Reported == fn.name = "generate_comprehensive_report" /\ fn.audit_events # <<>>

\* the positions of the events of a type in the log the report was made from
Occurrences(event_type) ==
    { i \in DOMAIN fn.audit_events : fn.audit_events[i].event_type = event_type }

\* the timeline has the types of the log as keys, and for each the timestamp
\* and data of the event at the position that `position` picks
TimelineShows(position(_)) ==
    /\ DOMAIN fn.event_timeline =
        { fn.audit_events[i].event_type : i \in DOMAIN fn.audit_events }
    /\ \A event_type \in DOMAIN fn.event_timeline :
        LET event == fn.audit_events[position(Occurrences(event_type))] IN
        fn.event_timeline[event_type] =
            [timestamp |-> event.timestamp, data |-> event.data]

First(positions) == CHOOSE i \in positions : \A j \in positions : i <= j

Last(positions) == CHOOSE i \in positions : \A j \in positions : j <= i

\* C36 as stated: the report groups the events by type and shows, for a type
\* that occurs several times, its first occurrence.
C36_ReportShowsFirstOccurrence ==
    Reported => TimelineShows(First)

\* C36, amended: the report groups the events by type and shows, for a type
\* that occurs several times, its last occurrence.
C36_ReportShowsLastOccurrence ==
    Reported => TimelineShows(Last)

\* A report was generated from a log in which a type occurs twice, with
\* different data.
C36_Witness ==
    /\ Reported
    /\ \E i, j \in DOMAIN fn.audit_events :
        /\ i < j
        /\ fn.audit_events[i].event_type = fn.audit_events[j].event_type
        /\ fn.audit_events[i].data # fn.audit_events[j].data
        /\ fn.event_timeline[fn.audit_events[j].event_type].data = fn.audit_events[j].data

\* ---- C37
\* thread t holds a lock
HoldsPending(t) == fn.pending_lock = t

HoldsAudit(t) == fn.audit_lock = t

\* thread t is where it asks for the pending-map lock
WantsPending(t) == fn.threads[t].pc \in {"s_wait", "r_wait"}

\* The locks are taken in one order: a thread that holds the audit lock
\* neither holds nor asks for the pending-map lock unless it took that one
\* first, and it lets the audit lock go in its next step; a thread that has
\* returned holds no lock.
LockOrder ==
    fn.name = "locks" =>
        \A t \in Threads :
            /\ HoldsAudit(t) => ~WantsPending(t)
            /\ HoldsAudit(t) <=>
                fn.threads[t].pc \in {"r_event_locked", "a_locked", "g_locked"}
            /\ HoldsPending(t) <=>
                fn.threads[t].pc \in {"s_locked", "r_locked", "r_event_wait",
                                      "r_event_locked", "r_recorded"}
            /\ fn.threads[t].pc = "done" => (~HoldsPending(t) /\ ~HoldsAudit(t))

\* every thread has returned
AllReturned ==
    fn.name = "locks" /\ \A t \in Threads : fn.threads[t].pc = "done"

\* C37: the locks are always taken in the order pending-map lock, audit
\* lock; every path through process lets the pending-map lock go, the path
\* of an exception included; so no deadlock is reached and every call
\* returns: in the end every thread has returned and both locks are free.
C37_LocksOrderedCallsReturn ==
    /\ []LockOrder
    /\ <>[](AllReturned /\ fn.pending_lock = NoThread /\ fn.audit_lock = NoThread)

\* A process call holds both locks while a get_audit_log call waits for the
\* audit lock.
C37_Witness ==
    /\ fn.name = "locks"
    /\ \E t, g \in Threads :
        /\ HoldsPending(t) /\ HoldsAudit(t)
        /\ fn.threads[g].pc = "g_wait"

\* ---- C38
\* process_crises has returned for submission s
Returned(s) == call[s].pc \in {"s_trigger", "s_store", "done"}

\* C38: for a submission that requires approval, process_crises returns
\* PENDING_APPROVAL without running execute_dispatch: as long as no approval
\* was granted for it, no dispatch event of that submission is in the log,
\* not for its decisions below the threshold either; and exactly one
\* AUTHORIZATION_REQUIRED event is recorded for it, whose risks are the
\* allocated decisions of risk score at least 4.0 and no other.
C38_NothingDispatchedBeforeApproval ==
    \A s \in Calls :
        (Gated(s) /\ Returned(s)) =>
            /\ call[s].result.status = "PENDING_APPROVAL"
            /\ ~Dispatched(s)
            /\ call[s].dispatch_log = <<>>
            /\ EventIndexes({"APPROVAL_GRANTED"}, s) = {} =>
                EventIndexes({"UNIT_DISPATCHED", "DISPATCH_COMPLETED",
                              "DISPATCH_SKIPPED", "EXECUTION_COMPLETED"}, s) = {}
            /\ Cardinality(EventIndexes({"AUTHORIZATION_REQUIRED"}, s)) = 1
            /\ \A i \in EventIndexes({"AUTHORIZATION_REQUIRED"}, s) :
                LET risks == audit_log[i].data.risks
                    high == { k \in DOMAIN DecisionsOf(s) :
                                DecisionsOf(s)[k].risk_score >= 40 }
                IN
                /\ audit_log[i].data.high_risk_count = Cardinality(high)
                /\ Len(risks) = Cardinality(high)
                /\ \A k \in DOMAIN risks : risks[k].risk_score >= 40
                /\ \A k \in high : \E m \in DOMAIN risks : risks[m] = DecisionsOf(s)[k]
                /\ call[s].result.details = risks

\* A submission with one decision above and one below the threshold has
\* returned pending approval.
C38_Witness ==
    \E s \in Calls :
        /\ Gated(s)
        /\ call[s].pc = "done"
        /\ Len(DecisionsOf(s)) = 2
        /\ \E k \in DOMAIN DecisionsOf(s) : DecisionsOf(s)[k].risk_score < 40

\* ---- C39
\* resolve_conflicts has returned for a list of records
RecordsResolved == fn.name = "resolve_conflicts_records" /\ fn.pc = "returned"

\* decisions and tradeoffs hold each crisis of the input once
IsPermutation ==
    /\ Len(fn.result.decisions) + Len(fn.result.tradeoffs) = Len(fn.given)
    /\ PositionsOf(fn.result.decisions) \cup PositionsOf(fn.result.tradeoffs)
            = DOMAIN fn.given
    /\ PositionsOf(fn.result.decisions) \cap PositionsOf(fn.result.tradeoffs) = {}

\* output has the keys of its input crisis, with their values but for the
\* keys in `set`, and status and the keys in `set`
Carries(output, set) ==
    /\ DOMAIN output = DOMAIN fn.given[output.n] \cup {"status"} \cup set
    /\ \A k \in DOMAIN fn.given[output.n] \ set : output[k] = fn.given[output.n][k]

\* C39 as stated: decisions and tradeoffs together are a permutation of the
\* input; every output has all fields of its input crisis unchanged, and
\* status allocated with an action, or status delayed with a reason; the
\* input list and its records are as they were.
C39_OutputsCarryInputUnchanged ==
    RecordsResolved =>
        /\ IsPermutation
        /\ \A j \in DOMAIN fn.result.decisions :
            LET output == fn.result.decisions[j] IN
            /\ Carries(output, {"action"} \ DOMAIN fn.given[output.n])
            /\ output.status = "allocated"
        /\ \A j \in DOMAIN fn.result.tradeoffs :
            LET output == fn.result.tradeoffs[j] IN
            /\ Carries(output, {"reason"} \ DOMAIN fn.given[output.n])
            /\ output.status = "delayed"
        /\ fn.crisis_list = fn.given

\* C39, amended: decisions and tradeoffs together are a permutation of the
\* input; every decision has status allocated and an action, every tradeoff
\* status delayed and a reason, and every other field of its input crisis
\* unchanged: a status, action (decision) or reason (tradeoff) field of the
\* input crisis is overwritten in the output. The input list and its
\* records are as they were.
C39_OutputsCarryOtherFields ==
    RecordsResolved =>
        /\ IsPermutation
        /\ \A j \in DOMAIN fn.result.decisions :
            LET output == fn.result.decisions[j] IN
            /\ Carries(output, {"status", "action"})
            /\ output.status = "allocated"
            /\ output.action # Get(fn.given[output.n], "action", "")
        /\ \A j \in DOMAIN fn.result.tradeoffs :
            LET output == fn.result.tradeoffs[j] IN
            /\ Carries(output, {"status", "reason"})
            /\ output.status = "delayed"
            /\ output.reason # Get(fn.given[output.n], "reason", "")
        /\ fn.crisis_list = fn.given

\* resolve_conflicts has returned for a list that was not in order, with a
\* record that had a status of its own among the decisions and one that had
\* a reason of its own among the tradeoffs.
C39_Witness ==
    /\ RecordsResolved
    /\ fn.given # SortedDesc(fn.given)
    /\ \E j \in DOMAIN fn.result.decisions :
        "status" \in DOMAIN fn.given[fn.result.decisions[j].n]
    /\ \E j \in DOMAIN fn.result.tradeoffs :
        "reason" \in DOMAIN fn.given[fn.result.tradeoffs[j].n]

\* ---- C40
\* the resolve calls for crisis id that found the entry and then raised
\* inside the with block
FailedResolves(id) ==
    { r \in ResolveCalls(id) :
        call[r].pc = "done" /\ call[r].found /\ call[r].response = ServerError }

\* C40: when a resolve call for an existing id has failed inside its locked
\* section, the outcome of the id is still decided once: there is at most one
\* APPROVAL_GRANTED or APPROVAL_REJECTED event for the id and at most one
\* resolve call for which execute_dispatch ran.
C40_DecidedOnceAfterFailure ==
    \A id \in CrisisIds :
        FailedResolves(id) # {} =>
            /\ Cardinality(ApprovalEvents({"APPROVAL_GRANTED", "APPROVAL_REJECTED"}, id)) <= 1
            /\ Cardinality({ r \in ResolveCalls(id) : Dispatched(r) }) <= 1
====
